---- MODULE Spec2Model ----
(***************************************************************************)
(* A model of the freebean ledger engine: the Context (clock, accounts,    *)
(* commodities), the operand stack, and the built-in ledger functions of   *)
(* pkg/functions.  A step of the model is one statement of a ledger: the   *)
(* text operands of a function are pushed and the function is called.      *)
(* Transfers, entities and descriptions stay on the operand stack between  *)
(* statements, exactly as in the interpreter.  The tag index, the scopes   *)
(* of pkg/parser (parentheses, silence, Finish), its Lexer and the run of  *)
(* the token loop over the Lexer are explored by specifications of their   *)
(* own over the same state.                                                *)
(***************************************************************************)
EXTENDS Integers, Sequences, FiniteSets, TLC

VARIABLES
    Date,          \* Context.Date, the clock
    Accounts,      \* Context.Accounts: account name -> reference into heap
    Commodities,   \* Context.Commodities: commodity name -> Commodity
    Tags,          \* Context.Tags: tag -> the tagged objects, in slice order
    heap,          \* the *core.Account objects ever allocated by open
    operandStack,  \* parser.Parser.operandStack
    markerStack,   \* parser.Parser.markerStack
    silenced,      \* parser.Parser.silenced
    err,           \* TRUE once Parse has returned an error (the run is over)
    report,        \* the error functions.Parser.Parse has returned, or NoError
    token,         \* the token Lexer.GetNextToken has returned last
    last,          \* the statement executed last: function, operands, outcome
    closedNames,   \* history: names whose latest successful open/close was a close
    lexer,         \* parser.Lexer: its fields
    read,          \* history: what the Lexer has taken from its reader
    reportLine,    \* the line number formatError has put into report, 0 if none
    input          \* the runes the reader of a finite stream still holds

vars == <<Date, Accounts, Commodities, Tags, heap, operandStack, markerStack, silenced,
          err, report, token, last, closedNames, lexer, read, reportLine, input>>

\* what a step that does not lex leaves alone
lexing == <<lexer, read, reportLine, input>>

----------------------------------------------------------------------------
(* Bounds of the model *)

MaxTransfers == 2  \* Transfers kept on the stack
MaxHeap == 3       \* Account objects allocated in one run
MaxBalance == 1    \* largest absolute balance of a lot entry
MaxTags == 2       \* tag operands of one statement
MaxOperands == 3   \* values on the operand stack of a token stream
MaxDepth == 2      \* open scopes of a token stream
MaxLine == 2       \* lines of an input
MaxText == 1       \* runes of a string of an input

\* the text values xact takes below the Transfers: entity and description
HeaderLength == 2

(* The vocabulary of text operands the statements are drawn from *)

AccountNames == {"Assets:A", "Equity"}
InvalidAccountName == "Cash"
CommodityNames == {"USD", "JPY"}
LotNames == {"", "foo"}
AmountTexts == {"-1", "0", "1"}
EntityText == "Entity"
NoteTexts == <<"note", "value">>

----------------------------------------------------------------------------
(* Text conversions, tabulated over the vocabulary *)

NumberValue ==
    ("-1" :> -1) @@ ("0" :> 0) @@ ("1" :> 1) @@ ("2" :> 2) @@
    ("32" :> 32) @@ ("2000" :> 2000)

\* ParseDecimal: decimal.NewFromString after stripping commas
ParseDecimal(q) ==
    IF q \in DOMAIN NumberValue
    THEN [ok |-> TRUE, v |-> NumberValue[q]]
    ELSE [ok |-> FALSE, v |-> 0]

\* strconv.ParseInt(s, 10, 32)
ParseInt(s) ==
    IF s \in DOMAIN NumberValue /\ NumberValue[s] >= -2147483647 - 1
                               /\ NumberValue[s] <= 2147483647
    THEN [ok |-> TRUE, v |-> NumberValue[s]]
    ELSE [ok |-> FALSE, v |-> 0]

\* strings.HasPrefix, over the names of the explored ledgers: a name is a
\* prefix followed by one of NameRests
NameRests == {"", "A"}

HasPrefix(s, prefix) == \E rest \in NameRests : s = prefix \o rest

AccountPrefixes == {"Assets:", "Liabilities:", "Income:", "Expenses:", "Equity:"}

\* the test of OpenFunction without the name Equity
HasAccountPrefixOnly(an) == \E prefix \in AccountPrefixes : HasPrefix(an, prefix)

\* the test of OpenFunction on the name of the account
HasAccountPrefix(an) ==
    (\E prefix \in AccountPrefixes : HasPrefix(an, prefix)) \/ an = "Equity"

----------------------------------------------------------------------------
(* core.Date *)

ZeroDate == [Year |-> 0, Month |-> 0, Day |-> 0]

daysBefore == <<0, 31, 59, 90, 120, 151, 181, 212, 243, 273, 304, 334>>

isLeap(y) == y % 4 = 0 /\ (y % 100 # 0 \/ y % 400 = 0)

\* Date.ToTime: time.Date normalises the month into the year and counts days
ToTime(d) ==
    LET m0 == d.Month - 1
        y == d.Year + (m0 \div 12)
        m == (m0 % 12) + 1
        p == y - 1
        beforeYear == 365 * p + (p \div 4) - (p \div 100) + (p \div 400)
        leapDay == IF isLeap(y) /\ m >= 3 THEN 1 ELSE 0
    IN  beforeYear + daysBefore[m] + leapDay + (d.Day - 1)

After(d, u) == ToTime(d) > ToTime(u)

Before(d, u) == ToTime(d) < ToTime(u)

Equal(d, u) == d.Year = u.Year /\ d.Month = u.Month /\ d.Day = u.Day

EqualOrAfter(d, u) == Equal(d, u) \/ After(d, u)

----------------------------------------------------------------------------
(* Values of the operand stack: text, or a pending *Transfer *)

Str(s) == [k |-> "s", s |-> s]

IsString(v) == v.k = "s"

IsTransfer(v) == v.k = "t"

Strs(args) == [i \in 1..Len(args) |-> Str(args[i])]

(* core.Account and core.Lot *)

NewAccount(name, creationDate) ==
    [Name |-> name, CreationDate |-> creationDate, ClosingDate |-> ZeroDate,
     Commodities |-> {}, Lots |-> ("" :> << >>), Tags |-> {}, Notes |-> << >>]

IsClosed(a, date) == ~Equal(a.ClosingDate, ZeroDate) /\ EqualOrAfter(date, a.ClosingDate)

AddTag(a, tag) == [a EXCEPT !.Tags = @ \cup {tag}]

HasTag(a, tag) == tag \in a.Tags

RemoveTag(a, tag) == [a EXCEPT !.Tags = @ \ {tag}]

NewCommodity(name, description, creationDate) ==
    [Name |-> name, Description |-> description, CreationDate |-> creationDate, Tags |-> {}]

\* Commodity.AddTag: the tag set of a Commodity is kept like an Account's
CommodityAddTag(c, tag) == [c EXCEPT !.Tags = @ \cup {tag}]

----------------------------------------------------------------------------
(* parser.Operands: a view of the operand stack above stackIndex.  A world  *)
(* w carries the stack, the view's floor and the Context a function sees.   *)

GetValues(w) == SubSeq(w.stack, w.stackIndex + 1, Len(w.stack))

Length(w) == Len(w.stack) - w.stackIndex

Push(w, v) == [w EXCEPT !.stack = Append(w.stack, v)]

\* Operands.Pop with the count checked against the whole stack
PopOfStack(w, numValues) ==
    LET n == IF numValues > Len(w.stack) THEN Len(w.stack) ELSE numValues
        stackIndex == Len(w.stack) - n
    IN  [values |-> SubSeq(w.stack, stackIndex + 1, Len(w.stack)),
         w |-> [w EXCEPT !.stack = SubSeq(w.stack, 1, stackIndex)]]

\* Pop returns the popped values and the world with the shortened stack
Pop(w, numValues) ==
    LET n == IF numValues > Length(w) THEN Length(w) ELSE numValues
        stackIndex == Len(w.stack) - n
    IN  [values |-> SubSeq(w.stack, stackIndex + 1, Len(w.stack)),
         w |-> [w EXCEPT !.stack = SubSeq(w.stack, 1, stackIndex)]]

Fail(w) == [w EXCEPT !.err = TRUE]

\* the loop shared by open, add-notes, tag, untag and xfer-exch: the text
\* operands above the topmost non-text value of the view
RECURSIVE TrailingStrings(_)
TrailingStrings(values) ==
    IF values = << >> \/ ~IsString(values[Len(values)])
    THEN << >>
    ELSE Append(TrailingStrings(SubSeq(values, 1, Len(values) - 1)), values[Len(values)])

----------------------------------------------------------------------------
(* pkg/functions: date, commodity, open *)

\* date without the comparison with the clock
DateFunctionOfAnyDate(w) ==
    IF Length(w) < 3 THEN Fail(w)
    ELSE
      LET p == Pop(w, 3)
          values == p.values
      IN  IF ~IsString(values[1]) \/ ~IsString(values[2]) \/ ~IsString(values[3])
          THEN Fail(p.w)
          ELSE
            LET y == ParseInt(values[1].s)
                m == ParseInt(values[2].s)
                dy == ParseInt(values[3].s)
                d == [Year |-> y.v, Month |-> m.v, Day |-> dy.v]
            IN  IF ~y.ok \/ ~m.ok \/ ~dy.ok THEN Fail(p.w)
                ELSE [p.w EXCEPT !.Date = d]

DateFunction(w) ==
    IF Length(w) < 3 THEN Fail(w)
    ELSE
      LET p == Pop(w, 3)
          values == p.values
      IN  IF ~IsString(values[1]) \/ ~IsString(values[2]) \/ ~IsString(values[3])
          THEN Fail(p.w)
          ELSE
            LET y == ParseInt(values[1].s)
                m == ParseInt(values[2].s)
                dy == ParseInt(values[3].s)
                d == [Year |-> y.v, Month |-> m.v, Day |-> dy.v]
            IN  IF ~y.ok \/ ~m.ok \/ ~dy.ok THEN Fail(p.w)
                ELSE IF After(p.w.Date, d) THEN Fail(p.w)
                ELSE [p.w EXCEPT !.Date = d]

CommodityFunction(w) ==
    IF Length(w) < 2 THEN Fail(w)
    ELSE
      LET p == Pop(w, 2)
          values == p.values
      IN  IF ~IsString(values[1]) \/ ~IsString(values[2]) THEN Fail(p.w)
          ELSE IF values[1].s \in DOMAIN p.w.Commodities THEN Fail(p.w)
          ELSE [p.w EXCEPT !.Commodities =
                   (values[1].s :> NewCommodity(values[1].s, values[2].s, p.w.Date)) @@ @]

OpenFunction(w) ==
    LET values == TrailingStrings(GetValues(w)) IN
    IF Len(values) < 1 THEN Fail(w)
    ELSE
      LET p == Pop(w, Len(values))
          an == values[1].s
          cnames == {values[i].s : i \in 2..Len(values)}
          acct == [NewAccount(an, p.w.Date) EXCEPT !.Commodities = cnames]
      IN  IF ~HasAccountPrefix(an) THEN Fail(p.w)
          ELSE IF an \in DOMAIN p.w.Accounts /\ ~IsClosed(p.w.heap[p.w.Accounts[an]], p.w.Date)
          THEN Fail(p.w)
          ELSE IF \E cname \in cnames : cname \notin DOMAIN p.w.Commodities THEN Fail(p.w)
          ELSE [p.w EXCEPT !.heap = Append(@, acct),
                           !.Accounts = (an :> (Len(p.w.heap) + 1)) @@ @]

\* comment that takes a view of one operand only
CommentFunctionOfOneOperand(w) ==
    IF Length(w) # 1 THEN Fail(w)
    ELSE
      LET p == Pop(w, 1)
      IN  IF ~IsString(p.values[1]) THEN Fail(p.w) ELSE p.w

CommentFunction(w) ==
    IF Length(w) < 1 THEN Fail(w)
    ELSE
      LET p == Pop(w, 1)
      IN  IF ~IsString(p.values[1]) THEN Fail(p.w) ELSE p.w

----------------------------------------------------------------------------
(* pkg/functions: close, close-lot *)

\* a variant of the loop that does not skip the default lot
HasNonzeroLot(acct) ==
    \E lotName \in DOMAIN acct.Lots :
        \E cn \in DOMAIN acct.Lots[lotName] : acct.Lots[lotName][cn].Balance.Amount # 0

\* the loop of CloseFunction: some named lot holds a nonzero balance
HasNonzeroNamedLot(acct) ==
    \E lotName \in DOMAIN acct.Lots :
        /\ lotName # ""
        /\ \E cn \in DOMAIN acct.Lots[lotName] : acct.Lots[lotName][cn].Balance.Amount # 0

\* a variant of close that does not test whether the account is closed
CloseFunctionOfClosed(w) ==
    IF Length(w) < 1 THEN Fail(w)
    ELSE
      LET p == Pop(w, 1)
          values == p.values
      IN  IF ~IsString(values[1]) THEN Fail(p.w)
          ELSE
            LET an == values[1].s IN
            IF an \notin DOMAIN p.w.Accounts THEN Fail(p.w)
            ELSE
              LET acct == p.w.heap[p.w.Accounts[an]] IN
              IF HasNonzeroNamedLot(acct) THEN Fail(p.w)
              ELSE [p.w EXCEPT !.heap[p.w.Accounts[an]].ClosingDate = p.w.Date]

CloseFunction(w) ==
    IF Length(w) < 1 THEN Fail(w)
    ELSE
      LET p == Pop(w, 1)
          values == p.values
      IN  IF ~IsString(values[1]) THEN Fail(p.w)
          ELSE
            LET an == values[1].s IN
            IF an \notin DOMAIN p.w.Accounts THEN Fail(p.w)
            ELSE
              LET acct == p.w.heap[p.w.Accounts[an]] IN
              IF IsClosed(acct, p.w.Date) THEN Fail(p.w)
              ELSE IF HasNonzeroNamedLot(acct) THEN Fail(p.w)
              ELSE [p.w EXCEPT !.heap[p.w.Accounts[an]].ClosingDate = p.w.Date]

\* a variant of the deletion that empties the lot and keeps its name
EmptyLot(lots, ln) == [lots EXCEPT ![ln] = << >>]

\* delete(acct.Lots, ln)
DeleteLot(lots, ln) == [l \in DOMAIN lots \ {ln} |-> lots[l]]

CloseLotFunction(w) ==
    IF Length(w) < 2 THEN Fail(w)
    ELSE
      LET p == Pop(w, 2)
          values == p.values
      IN  IF ~IsString(values[1]) \/ ~IsString(values[2]) THEN Fail(p.w)
          ELSE
            LET an == values[1].s
                ln == values[2].s
            IN  IF an \notin DOMAIN p.w.Accounts THEN Fail(p.w)
                ELSE
                  LET acct == p.w.heap[p.w.Accounts[an]] IN
                  IF IsClosed(acct, p.w.Date) THEN Fail(p.w)
                  ELSE IF ln \notin DOMAIN acct.Lots THEN Fail(p.w)
                  ELSE IF \E cn \in DOMAIN acct.Lots[ln] : acct.Lots[ln][cn].Balance.Amount # 0
                  THEN Fail(p.w)
                  ELSE [p.w EXCEPT !.heap[p.w.Accounts[an]].Lots = DeleteLot(@, ln)]

----------------------------------------------------------------------------
(* pkg/functions: assert, assert-lot, assert-lots-sum *)

\* the checks shared by the three assertions once the operands are text:
\* the amount parses, the account exists and is open, the commodity exists
AssertEntityError(w, an, as, cn) ==
    \/ ~ParseDecimal(as).ok
    \/ an \notin DOMAIN w.Accounts
    \/ IsClosed(w.heap[w.Accounts[an]], w.Date)
    \/ cn \notin DOMAIN w.Commodities

\* a variant of assert that takes an absent commodity entry as a mismatch
\* whatever the amount
AssertFunctionOfEntry(w) ==
    IF Length(w) < 3 THEN Fail(w)
    ELSE
      LET p == Pop(w, 3)
          values == p.values
      IN  IF ~IsString(values[1]) \/ ~IsString(values[2]) \/ ~IsString(values[3])
          THEN Fail(p.w)
          ELSE
            LET an == values[1].s
                q == ParseDecimal(values[2].s).v
                cn == values[3].s
            IN  IF AssertEntityError(p.w, an, values[2].s, cn) THEN Fail(p.w)
                ELSE
                  LET acct == p.w.heap[p.w.Accounts[an]] IN
                  IF "" \notin DOMAIN acct.Lots THEN Fail(p.w)
                  ELSE IF cn \notin DOMAIN acct.Lots[""] THEN Fail(p.w)
                  ELSE IF acct.Lots[""][cn].Balance.Amount # q THEN Fail(p.w)
                  ELSE p.w

AssertFunction(w) ==
    IF Length(w) < 3 THEN Fail(w)
    ELSE
      LET p == Pop(w, 3)
          values == p.values
      IN  IF ~IsString(values[1]) \/ ~IsString(values[2]) \/ ~IsString(values[3])
          THEN Fail(p.w)
          ELSE
            LET an == values[1].s
                q == ParseDecimal(values[2].s).v
                cn == values[3].s
            IN  IF AssertEntityError(p.w, an, values[2].s, cn) THEN Fail(p.w)
                ELSE
                  LET acct == p.w.heap[p.w.Accounts[an]] IN
                  IF "" \notin DOMAIN acct.Lots THEN Fail(p.w)
                  ELSE IF cn \notin DOMAIN acct.Lots[""]
                  THEN (IF q # 0 THEN Fail(p.w) ELSE p.w)
                  ELSE IF acct.Lots[""][cn].Balance.Amount # q THEN Fail(p.w)
                  ELSE p.w

\* a variant of assert-lot that tolerates a zero amount of an absent lot
AssertLotFunctionOfAbsentLot(w) ==
    IF Length(w) < 4 THEN Fail(w)
    ELSE
      LET p == Pop(w, 4)
          values == p.values
      IN  IF \E i \in 1..4 : ~IsString(values[i]) THEN Fail(p.w)
          ELSE
            LET an == values[1].s
                ln == values[2].s
                q == ParseDecimal(values[3].s).v
                cn == values[4].s
            IN  IF AssertEntityError(p.w, an, values[3].s, cn) THEN Fail(p.w)
                ELSE
                  LET acct == p.w.heap[p.w.Accounts[an]] IN
                  IF ln \notin DOMAIN acct.Lots \/ cn \notin DOMAIN acct.Lots[ln]
                  THEN (IF q # 0 THEN Fail(p.w) ELSE p.w)
                  ELSE IF acct.Lots[ln][cn].Balance.Amount # q THEN Fail(p.w)
                  ELSE p.w

AssertLotFunction(w) ==
    IF Length(w) < 4 THEN Fail(w)
    ELSE
      LET p == Pop(w, 4)
          values == p.values
      IN  IF \E i \in 1..4 : ~IsString(values[i]) THEN Fail(p.w)
          ELSE
            LET an == values[1].s
                ln == values[2].s
                q == ParseDecimal(values[3].s).v
                cn == values[4].s
            IN  IF AssertEntityError(p.w, an, values[3].s, cn) THEN Fail(p.w)
                ELSE
                  LET acct == p.w.heap[p.w.Accounts[an]] IN
                  IF ln \notin DOMAIN acct.Lots THEN Fail(p.w)
                  ELSE IF cn \notin DOMAIN acct.Lots[ln]
                  THEN (IF q # 0 THEN Fail(p.w) ELSE p.w)
                  ELSE IF acct.Lots[ln][cn].Balance.Amount # q THEN Fail(p.w)
                  ELSE p.w

\* a variant of the summing loop that leaves the default lot out
RECURSIVE SumNamedLots(_, _, _)
SumNamedLots(lots, todo, cn) ==
    IF todo = {} THEN 0
    ELSE
      LET ln == CHOOSE l \in todo : TRUE
          rest == SumNamedLots(lots, todo \ {ln}, cn)
      IN  IF ln # "" /\ cn \in DOMAIN lots[ln] THEN lots[ln][cn].Balance.Amount + rest
          ELSE rest

\* the summing loop of AssertLotsSumFunction over the lots not yet visited
RECURSIVE SumLots(_, _, _)
SumLots(lots, todo, cn) ==
    IF todo = {} THEN 0
    ELSE
      LET ln == CHOOSE l \in todo : TRUE
          rest == SumLots(lots, todo \ {ln}, cn)
      IN  IF cn \in DOMAIN lots[ln] THEN lots[ln][cn].Balance.Amount + rest ELSE rest

AssertLotsSumFunction(w) ==
    IF Length(w) < 3 THEN Fail(w)
    ELSE
      LET p == Pop(w, 3)
          values == p.values
      IN  IF ~IsString(values[1]) \/ ~IsString(values[2]) \/ ~IsString(values[3])
          THEN Fail(p.w)
          ELSE
            LET an == values[1].s
                q == ParseDecimal(values[2].s).v
                cn == values[3].s
            IN  IF AssertEntityError(p.w, an, values[2].s, cn) THEN Fail(p.w)
                ELSE
                  LET acct == p.w.heap[p.w.Accounts[an]]
                      sum == SumLots(acct.Lots, DOMAIN acct.Lots, cn)
                  IN  IF sum # q THEN Fail(p.w) ELSE p.w

----------------------------------------------------------------------------
(* pkg/functions/transfer.go: Transfer, xfer, xfer-exch, lot, create-lot *)

Quantity(amount, commodity) == [Amount |-> amount, Commodity |-> commodity]

NoExchangeRate == << >>

\* a variant of Transfer.Lot whose balance is the total price when the
\* Transfer has an exchange rate
LotOfTotalPrice(t, creationDate) ==
    [Name |-> t.LotName, CreationDate |-> creationDate,
     Balance |-> (IF t.ExchangeRate # << >> THEN t.ExchangeRate[1].TotalPrice
                  ELSE t.Quantity),
     ExchangeRate |-> t.ExchangeRate]

\* Transfer.Lot
TransferLot(t, creationDate) ==
    [Name |-> t.LotName, CreationDate |-> creationDate,
     Balance |-> t.Quantity, ExchangeRate |-> t.ExchangeRate]

GetTransferQuantity(t) ==
    IF t.ExchangeRate # NoExchangeRate THEN t.ExchangeRate[1].TotalPrice ELSE t.Quantity

\* the checks without the one of the commodities the account takes
TransferTargetErrorOfAnyCommodity(w, an, cn) ==
    \/ an \notin DOMAIN w.Accounts
    \/ IsClosed(w.heap[w.Accounts[an]], w.Date)
    \/ cn \notin DOMAIN w.Commodities

\* the account and commodity checks shared by ParseTransfer and
\* ParseTransferWithExchange
TransferTargetError(w, an, cn) ==
    \/ an \notin DOMAIN w.Accounts
    \/ IsClosed(w.heap[w.Accounts[an]], w.Date)
    \/ cn \notin DOMAIN w.Commodities
    \/ /\ w.heap[w.Accounts[an]].Commodities # {}
       /\ cn \notin w.heap[w.Accounts[an]].Commodities

\* ParseTransfer followed by the push of XferFunction
XferFunction(w) ==
    IF Length(w) < 3 THEN Fail(w)
    ELSE
      LET p == Pop(w, 3)
          values == p.values
      IN  IF ~IsString(values[1]) \/ ~IsString(values[2]) \/ ~IsString(values[3])
          THEN Fail(p.w)
          ELSE
            LET an == values[1].s
                q == ParseDecimal(values[2].s)
                cn == values[3].s
            IN  IF ~q.ok THEN Fail(p.w)
                ELSE IF TransferTargetError(p.w, an, cn) THEN Fail(p.w)
                ELSE Push(p.w, [k |-> "t", Account |-> p.w.Accounts[an], LotName |-> "",
                                CreateLot |-> FALSE, Quantity |-> Quantity(q.v, cn),
                                ExchangeRate |-> NoExchangeRate, Comment |-> ""])

\* ParseTransferWithExchange followed by the push of XferExchFunction
XferExchFunction(w) ==
    LET strings == TrailingStrings(GetValues(w)) IN
    IF Len(strings) < 7 THEN Fail(w)
    ELSE
      LET p == Pop(w, 7)
          values == p.values
          an == values[1].s
          q == ParseDecimal(values[2].s)
          cn == values[3].s
          upq == ParseDecimal(values[4].s)
          upcn == values[5].s
          tpq == ParseDecimal(values[6].s)
          tpcn == values[7].s
      IN  IF ~q.ok \/ ~upq.ok \/ ~tpq.ok THEN Fail(p.w)
          ELSE IF TransferTargetError(p.w, an, cn) THEN Fail(p.w)
          ELSE IF upcn \notin DOMAIN p.w.Commodities THEN Fail(p.w)
          ELSE IF tpcn \notin DOMAIN p.w.Commodities THEN Fail(p.w)
          ELSE Push(p.w, [k |-> "t", Account |-> p.w.Accounts[an], LotName |-> "",
                          CreateLot |-> FALSE, Quantity |-> Quantity(q.v, cn),
                          ExchangeRate |-> <<[UnitPrice |-> Quantity(upq.v, upcn),
                                              TotalPrice |-> Quantity(tpq.v, tpcn)]>>,
                          Comment |-> ""])

LotFunction(w) ==
    IF Length(w) < 2 THEN Fail(w)
    ELSE
      LET p == Pop(w, 2)
          values == p.values
          t == values[1]
      IN  IF ~IsTransfer(t) THEN Fail(p.w)
          ELSE IF ~IsString(values[2]) THEN Fail(p.w)
          ELSE IF IsClosed(p.w.heap[t.Account], p.w.Date) THEN Fail(p.w)
          ELSE IF values[2].s \notin DOMAIN p.w.heap[t.Account].Lots THEN Fail(p.w)
          ELSE Push(p.w, [t EXCEPT !.LotName = values[2].s])

CreateLotFunction(w) ==
    IF Length(w) < 2 THEN Fail(w)
    ELSE
      LET p == Pop(w, 2)
          values == p.values
          t == values[1]
      IN  IF ~IsTransfer(t) THEN Fail(p.w)
          ELSE IF ~IsString(values[2]) THEN Fail(p.w)
          ELSE
            LET ln == values[2].s
                lots == p.w.heap[t.Account].Lots
            IN  IF IsClosed(p.w.heap[t.Account], p.w.Date) THEN Fail(p.w)
                ELSE IF ln \in DOMAIN lots /\ t.Quantity.Commodity \in DOMAIN lots[ln]
                THEN Fail(p.w)
                ELSE Push(p.w, [t EXCEPT !.LotName = ln, !.CreateLot = TRUE])

----------------------------------------------------------------------------
(* pkg/functions/transaction.go: xact *)

\* ExecuteTransfer that stamps the entry it adds to with the Transfer's
\* exchange rate and the clock
ExecuteTransferOfLastRate(h, t, date) ==
    LET lots == h[t.Account].Lots
        cn == t.Quantity.Commodity
    IN  IF t.LotName \notin DOMAIN lots
        THEN IF t.CreateLot
             THEN [err |-> FALSE,
                   heap |-> [h EXCEPT ![t.Account].Lots =
                                (t.LotName :> (cn :> TransferLot(t, date))) @@ @]]
             ELSE [err |-> TRUE, heap |-> h]
        ELSE IF cn \in DOMAIN lots[t.LotName]
        THEN [err |-> FALSE,
              heap |-> [h EXCEPT ![t.Account].Lots[t.LotName][cn] =
                           [TransferLot(t, date) EXCEPT !.Balance.Amount =
                               lots[t.LotName][cn].Balance.Amount + t.Quantity.Amount]]]
        ELSE [err |-> FALSE,
              heap |-> [h EXCEPT ![t.Account].Lots[t.LotName] =
                           (cn :> TransferLot(t, date)) @@ @]]

\* Transfer.ExecuteTransfer on the account objects h at clock date
ExecuteTransfer(h, t, date) ==
    LET lots == h[t.Account].Lots
        cn == t.Quantity.Commodity
    IN  IF t.LotName \notin DOMAIN lots
        THEN IF t.CreateLot
             THEN [err |-> FALSE,
                   heap |-> [h EXCEPT ![t.Account].Lots =
                                (t.LotName :> (cn :> TransferLot(t, date))) @@ @]]
             ELSE [err |-> TRUE, heap |-> h]
        ELSE IF cn \in DOMAIN lots[t.LotName]
        THEN [err |-> FALSE,
              heap |-> [h EXCEPT ![t.Account].Lots[t.LotName][cn].Balance.Amount =
                           @ + t.Quantity.Amount]]
        ELSE [err |-> FALSE,
              heap |-> [h EXCEPT ![t.Account].Lots[t.LotName] =
                           (cn :> TransferLot(t, date)) @@ @]]

\* Transaction.Execute: the transfers in order, stopping at the first error
RECURSIVE Execute(_, _, _)
Execute(h, transfers, date) ==
    IF transfers = << >> THEN [err |-> FALSE, heap |-> h]
    ELSE
      LET r == ExecuteTransfer(h, Head(transfers), date) IN
      IF r.err THEN r ELSE Execute(r.heap, Tail(transfers), date)

\* checkTransfers from transfer i on, with q the quantity accumulated so far;
\* TRUE when it returns an error
RECURSIVE checkTransfersFrom(_, _, _)
checkTransfersFrom(transfers, i, q) ==
    IF i > Len(transfers) THEN q.Amount # 0
    ELSE
      LET tq == GetTransferQuantity(transfers[i]) IN
      IF tq.Commodity # q.Commodity THEN TRUE
      ELSE checkTransfersFrom(transfers, i + 1, Quantity(q.Amount + tq.Amount, q.Commodity))

\* a variant of checkTransfers that sums the amounts whatever the commodities
RECURSIVE sumFrom(_, _)
sumFrom(transfers, i) ==
    IF i > Len(transfers) THEN 0
    ELSE GetTransferQuantity(transfers[i]).Amount + sumFrom(transfers, i + 1)

checkTransfersOfAmounts(transfers) == sumFrom(transfers, 1) # 0

checkTransfers(transfers) ==
    checkTransfersFrom(transfers, 2, GetTransferQuantity(transfers[1]))

\* getTransferAndNoteOperandStartIndices, with the indices of the code
\* (offsets from 0 into the view)
noteStartIndexOf(values) ==
    LET nonStrings == {i \in 1..Len(values) : ~IsString(values[i])} IN
    IF nonStrings = {} THEN -1
    ELSE CHOOSE i \in nonStrings : \A j \in nonStrings : j <= i

transferStartIndexOf(values) ==
    LET noteStartIndex == noteStartIndexOf(values)
        nonTransfers == {i \in 1..noteStartIndex : ~IsTransfer(values[i])}
    IN  IF noteStartIndex < 0 THEN noteStartIndex - 1
        ELSE IF nonTransfers = {} THEN -1
        ELSE CHOOSE i \in nonTransfers : \A j \in nonTransfers : j <= i

\* ParseTransaction: the error, the stack it leaves and the transfers
ParseTransaction(w) ==
    LET values == GetValues(w)
        transferStartIndex == transferStartIndexOf(values)
        noteStartIndex == noteStartIndexOf(values)
        numTransfers == noteStartIndex - transferStartIndex
        numNotes == Len(values) - noteStartIndex
    IN  IF transferStartIndex = 0 \/ transferStartIndex = 1
        THEN [w |-> Fail(w), Transfers |-> << >>]
        ELSE IF numTransfers < 2 THEN [w |-> Fail(w), Transfers |-> << >>]
        ELSE IF numNotes % 2 # 0 THEN [w |-> Fail(w), Transfers |-> << >>]
        ELSE
          LET p == Pop(w, numTransfers + numNotes + 2)
              transfers == SubSeq(p.values, 3, numTransfers + 2)
          IN  IF ~IsString(p.values[1]) THEN [w |-> Fail(p.w), Transfers |-> << >>]
              ELSE IF ~IsString(p.values[2]) THEN [w |-> Fail(p.w), Transfers |-> << >>]
              ELSE IF checkTransfers(transfers) THEN [w |-> Fail(p.w), Transfers |-> transfers]
              ELSE [w |-> p.w, Transfers |-> transfers]

XactFunction(w) ==
    LET t == ParseTransaction(w) IN
    IF t.w.err THEN t.w
    ELSE
      LET r == Execute(t.w.heap, t.Transfers, t.w.Date) IN
      [t.w EXCEPT !.heap = r.heap, !.err = r.err]

----------------------------------------------------------------------------
(* pkg/functions: tag, tag-commodity, untag.  An entry of Context.Tags is   *)
(* the slice of the objects a tag is on: Account objects by their place in  *)
(* the heap, Commodity objects by their name.                               *)

AccountTarget(i) == [Account |-> i, Commodity |-> ""]

CommodityTarget(cn) == [Account |-> 0, Commodity |-> cn]

\* the slice holds the object
Tagged(tts, target) == \E i \in 1..Len(tts) : tts[i] = target

\* the index after a tag is put on an object without looking for the object
AppendTarget(tags, tag, target) ==
    IF tag \in DOMAIN tags
    THEN [tags EXCEPT ![tag] = Append(@, target)]
    ELSE (tag :> <<target>>) @@ tags

\* the index after a tag is put on an object: the object is appended to the
\* tag's slice unless the slice holds it
AddTarget(tags, tag, target) ==
    IF tag \in DOMAIN tags
    THEN IF Tagged(tags[tag], target) THEN tags
         ELSE [tags EXCEPT ![tag] = Append(@, target)]
    ELSE (tag :> <<target>>) @@ tags

\* the loop of TagFunction over the tag operands from the i-th on
RECURSIVE TagAccount(_, _, _, _)
TagAccount(w, acct, values, i) ==
    IF i > Len(values) THEN w
    ELSE LET tag == values[i].s
         IN  TagAccount([w EXCEPT !.Tags = AddTarget(@, tag, AccountTarget(acct)),
                                  !.heap[acct] = AddTag(@, tag)],
                        acct, values, i + 1)

TagFunction(w) ==
    LET strings == TrailingStrings(GetValues(w))
    IN  IF Len(strings) < 2 THEN Fail(w)
        ELSE
          LET p == Pop(w, Len(strings))
              values == p.values
              an == values[1].s
          IN  IF an \notin DOMAIN p.w.Accounts THEN Fail(p.w)
              ELSE IF IsClosed(p.w.heap[p.w.Accounts[an]], p.w.Date) THEN Fail(p.w)
              ELSE TagAccount(p.w, p.w.Accounts[an], values, 2)

\* the loop of TagCommodityFunction over the tag operands from the i-th on
RECURSIVE TagCommodity(_, _, _, _)
TagCommodity(w, cn, values, i) ==
    IF i > Len(values) THEN w
    ELSE LET tag == values[i].s
         IN  TagCommodity([w EXCEPT !.Tags = AddTarget(@, tag, CommodityTarget(cn)),
                                    !.Commodities[cn] = CommodityAddTag(@, tag)],
                          cn, values, i + 1)

TagCommodityFunction(w) ==
    LET strings == TrailingStrings(GetValues(w))
    IN  IF Len(strings) < 2 THEN Fail(w)
        ELSE
          LET p == Pop(w, Len(strings))
              values == p.values
              cn == values[1].s
          IN  IF cn \notin DOMAIN p.w.Commodities THEN Fail(p.w)
              ELSE TagCommodity(p.w, cn, values, 2)

\* the slice without its last object, whatever the object
DropLastTarget(tts, m, n, target) ==
    SubSeq(tts, 1, n - 1)

\* the inner loop of UntagFunction over tts[m..n]: an occurrence of the
\* object is overwritten with the last object and the slice is shortened
RECURSIVE RemoveTarget(_, _, _, _)
RemoveTarget(tts, m, n, target) ==
    IF m > n THEN SubSeq(tts, 1, n)
    ELSE IF tts[m] = target THEN RemoveTarget([tts EXCEPT ![m] = tts[n]], m, n - 1, target)
    ELSE RemoveTarget(tts, m + 1, n, target)

\* the index after the object is taken off the tag: an emptied entry is
\* deleted
UntagTarget(tags, tag, target) ==
    IF tag \in DOMAIN tags
    THEN LET tts == RemoveTarget(tags[tag], 1, Len(tags[tag]), target)
         IN  IF Len(tts) # 0 THEN [tags EXCEPT ![tag] = tts]
             ELSE [t \in DOMAIN tags \ {tag} |-> tags[t]]
    ELSE tags

\* the loop of UntagFunction over the tag operands from the i-th on
RECURSIVE UntagAccount(_, _, _, _)
UntagAccount(w, acct, values, i) ==
    IF i > Len(values) THEN w
    ELSE LET tag == values[i].s
         IN  UntagAccount([w EXCEPT !.Tags = UntagTarget(@, tag, AccountTarget(acct)),
                                    !.heap[acct] = RemoveTag(@, tag)],
                          acct, values, i + 1)

UntagFunction(w) ==
    LET strings == TrailingStrings(GetValues(w))
    IN  IF Len(strings) < 2 THEN Fail(w)
        ELSE
          LET p == Pop(w, Len(strings))
              values == p.values
              an == values[1].s
          IN  IF an \notin DOMAIN p.w.Accounts THEN Fail(p.w)
              ELSE IF IsClosed(p.w.heap[p.w.Accounts[an]], p.w.Date) THEN Fail(p.w)
              ELSE UntagAccount(p.w, p.w.Accounts[an], values, 2)

----------------------------------------------------------------------------
(* pkg/parser/lexer.go: the Lexer.  A rune is a string of one character;   *)
(* the strings.Builder of the Lexer is the sequence of the runes written   *)
(* to it.                                                                   *)

Newline == "\n"
Backslash == "\\"
Quote == "\""
OpenRune == "("
CloseRune == ")"

\* unicode.IsSpace, over the runes of the explored inputs
IsSpace(r) == r \in {" ", "\t", "\n"}

\* the errors of a Lexer's Error token; EOF is io.EOF
EOF == "EOF"
escapingAtEofError == "unfinished escape at end of file"
inStringAtEofError == "unfinished quoted string at end of file"

\* strings.Builder.String
RECURSIVE BuilderString(_)
BuilderString(runes) ==
    IF runes = << >> THEN "" ELSE Head(runes) \o BuilderString(Tail(runes))

NewLexer ==
    [lineNumber |-> 1, isEscaping |-> FALSE, isInString |-> FALSE,
     isInQuotedString |-> FALSE, token |-> << >>,
     openParenSet |-> FALSE, closeParenSet |-> FALSE]

LineNumber(l) == l.lineNumber

\* what a pass of GetNextToken leaves: the Lexer, and the token it returns
\* (tokenType none: no token yet, the loop reads on)
Lexed(l, tokenType, text, e) == [l |-> l, tokenType |-> tokenType, token |-> text, e |-> e]

\* the string under way is returned and the builder is kept
EmitWithoutReset(l, tokenType) == Lexed(l, tokenType, BuilderString(l.token), "nil")

\* the string under way is returned and the builder is reset
Emit(l, tokenType) == Lexed([l EXCEPT !.token = << >>], tokenType, BuilderString(l.token), "nil")

\* a Lexer that counts no line inside a string
addRuneOfLinesOutsideStrings(l, r) ==
    IF r = Newline /\ ~l.isInString /\ ~l.isEscaping THEN [l EXCEPT !.lineNumber = @ + 1] ELSE l

\* the line count of addRuneAndGetToken
addRuneOfLine(l, r) == IF r = Newline THEN [l EXCEPT !.lineNumber = @ + 1] ELSE l

\* Lexer.addRuneAndGetToken
addRuneAndGetToken(lex, r) ==
    LET l == addRuneOfLine(lex, r)
    IN  IF l.isEscaping
        THEN Lexed([l EXCEPT !.token = Append(@, r), !.isEscaping = FALSE,
                             !.isInString = TRUE], "none", "", "nil")
        ELSE IF r = Backslash
        THEN Lexed([l EXCEPT !.isEscaping = TRUE], "none", "", "nil")
        ELSE IF l.isInQuotedString
        THEN IF r = Quote
             THEN Emit([l EXCEPT !.isInString = FALSE, !.isInQuotedString = FALSE],
                       "QuotedString")
             ELSE Lexed([l EXCEPT !.token = Append(@, r)], "none", "", "nil")
        ELSE IF l.isInString
        THEN IF r = Quote
             THEN Emit([l EXCEPT !.isInQuotedString = TRUE], "String")
             ELSE IF r = OpenRune
             THEN Emit([l EXCEPT !.isInString = FALSE, !.openParenSet = TRUE], "String")
             ELSE IF r = CloseRune
             THEN Emit([l EXCEPT !.isInString = FALSE, !.closeParenSet = TRUE], "String")
             ELSE IF IsSpace(r)
             THEN Emit([l EXCEPT !.isInString = FALSE], "String")
             ELSE Lexed([l EXCEPT !.token = Append(@, r)], "none", "", "nil")
        ELSE IF IsSpace(r)
        THEN Lexed(l, "none", "", "nil")
        ELSE IF r = Quote
        THEN Lexed([l EXCEPT !.isInString = TRUE, !.isInQuotedString = TRUE], "none", "", "nil")
        ELSE IF r = OpenRune
        THEN Lexed(l, "OpenParen", "", "nil")
        ELSE IF r = CloseRune
        THEN Lexed(l, "CloseParen", "", "nil")
        ELSE Lexed([l EXCEPT !.token = Append(@, r), !.isInString = TRUE], "none", "", "nil")

\* getFinalToken that ends the stream whatever is under way
getFinalTokenOfAnyState(l) == Lexed(l, "Error", "", EOF)

\* getFinalToken that returns the string under way and leaves it under way
getFinalTokenOfStringLeft(l) ==
    IF l.isInQuotedString THEN Lexed(l, "Error", "", inStringAtEofError)
    ELSE IF l.isEscaping THEN Lexed(l, "Error", "", escapingAtEofError)
    ELSE IF ~l.isInString THEN Lexed(l, "Error", "", EOF)
    ELSE Lexed(l, "String", BuilderString(l.token), "nil")

\* Lexer.getFinalToken
getFinalToken(l) ==
    IF l.isInQuotedString THEN Lexed(l, "Error", "", inStringAtEofError)
    ELSE IF l.isEscaping THEN Lexed(l, "Error", "", escapingAtEofError)
    ELSE IF ~l.isInString THEN Lexed(l, "Error", "", EOF)
    ELSE Lexed([l EXCEPT !.isInString = FALSE], "String", BuilderString(l.token), "nil")

\* the first lines of GetNextToken: a parenthesis that ended a string is
\* returned before a rune is read
HasPendingParen(l) == l.openParenSet \/ l.closeParenSet

\* a pending parenthesis that is returned and kept
ReturnPendingParenAgain(l) ==
    Lexed(l, IF l.openParenSet THEN "OpenParen" ELSE "CloseParen", "", "nil")

ReturnPendingParen(l) ==
    IF l.openParenSet THEN Lexed([l EXCEPT !.openParenSet = FALSE], "OpenParen", "", "nil")
    ELSE Lexed([l EXCEPT !.closeParenSet = FALSE], "CloseParen", "", "nil")

----------------------------------------------------------------------------
(* The run: functions.NewParser, then one statement per step until an error *)

\* what functions.Parser.Parse returns: nil, the error of a called function,
\* or an error of the parser itself
NoError == "nil"
FunctionError == "function error"
SilenceOutsideParentheses == "found silence outside parentheses"
UnmatchedCloseParen == "closing parenthesis does not have a matching open parenthesis"
UnconsumedOperands == "unconsumed operands at closing parenthesis"
UnconsumedTokens == "unconsumed tokens left on stack at EOF"
UnclosedParentheses == "unclosed parentheses at EOF"
SilencedAtEOF == "parser evaluation silenced at EOF"

\* a token of the Lexer: its TokenType and its text; an Error token with the
\* text EOF is the end of the input
Token(type, text) == [type |-> type, text |-> text]

\* the history of the reader: the rune the last pass of GetNextToken has
\* read ("" when it has read none, EOF at the end of the input), the
\* newlines read so far, the line on which the string read last began, and
\* whether the reader has reached its end
NothingRead == [rune |-> "", newlines |-> 0, start |-> 1, eof |-> FALSE]

\* functions.NewParser: the Parser and its Lexer before the first token
NewParser ==
    /\ Date = ZeroDate
    /\ Accounts = << >>
    /\ Commodities = << >>
    /\ Tags = << >>
    /\ heap = << >>
    /\ operandStack = << >>
    /\ markerStack = << >>
    /\ silenced = 0
    /\ err = FALSE
    /\ report = NoError
    /\ token = Token("", "")
    /\ last = [fn |-> "", args |-> << >>, ok |-> TRUE]
    /\ closedNames = {}
    /\ lexer = NewLexer
    /\ read = NothingRead
    /\ reportLine = 0

\* the runes of the reader are chosen as they are read
Init == NewParser /\ input = << >>

\* Parser.getOperands over the stack with the statement's text operands
\* pushed: the view starts at the top marker, at 0 when no scope is open
getOperands(args) ==
    [stack |-> operandStack \o Strs(args),
     stackIndex |-> IF Len(markerStack) # 0 THEN markerStack[Len(markerStack)] ELSE 0,
     Date |-> Date, Accounts |-> Accounts, Commodities |-> Commodities, Tags |-> Tags,
     heap |-> heap, err |-> FALSE]

\* every lot entry of every account object is within the balance bound
WithinBalance(h) ==
    \A i \in 1..Len(h) : \A ln \in DOMAIN h[i].Lots : \A cn \in DOMAIN h[i].Lots[ln] :
        h[i].Lots[ln][cn].Balance.Amount \in -MaxBalance..MaxBalance

\* Go's garbage collector: an Account object that neither the Context (its
\* accounts, its tag index) nor a Transfer on the stack refers to is gone
Collected == [NewAccount("", ZeroDate) EXCEPT !.Lots = << >>]

Collect(h, accounts, tags, stack) ==
    LET live == {accounts[an] : an \in DOMAIN accounts} \cup
                UNION {{tags[t][i].Account : i \in 1..Len(tags[t])} : t \in DOMAIN tags} \cup
                {stack[i].Account : i \in {j \in 1..Len(stack) : IsTransfer(stack[j])}}
    IN  [i \in 1..Len(h) |-> IF i \in live THEN h[i] ELSE Collected]

\* the String case of Parser.Parse for a registered function: r is the world
\* the function leaves; an error ends the run
Dispatch(fn, args, r) ==
    /\ Date' = r.Date
    /\ Accounts' = r.Accounts
    /\ Commodities' = r.Commodities
    /\ Tags' = r.Tags
    /\ heap' = Collect(r.heap, r.Accounts, r.Tags, r.stack)
    /\ operandStack' = r.stack
    /\ UNCHANGED <<markerStack, silenced>>
    /\ err' = r.err
    /\ report' = IF r.err THEN FunctionError ELSE NoError
    /\ token' = Token("String", fn)
    /\ last' = [fn |-> fn, args |-> args, ok |-> ~r.err]
    /\ closedNames' =
         IF r.err THEN closedNames
         ELSE IF fn = "close" THEN closedNames \cup {args[1]}
         ELSE IF fn = "open" THEN closedNames \ {r.heap[Len(r.heap)].Name}
         ELSE closedNames

(* The shape of the explored ledgers: the entity and description come      *)
(* first, then the Transfers; declarations and assertions stand between     *)
(* transactions.                                                            *)

OnlyStrings(stack) == \A i \in 1..Len(stack) : IsString(stack[i])

NumTransfers(stack) == Cardinality({i \in 1..Len(stack) : IsTransfer(stack[i])})

AssertionNames == {"assert", "assert-lot", "assert-lots-sum"}

\* the run goes on and the body of the ledger is not over: the assertions of
\* an explored ledger stand at its end
InBody == ~err /\ last.fn \notin AssertionNames

\* the entity and the description are on the stack and the clock is set
HeaderPushed == Len(operandStack) >= HeaderLength /\ Date # ZeroDate

\* accounts are opened and closed and lots are closed before a transaction
\* is begun, or when its Transfers are pending
BetweenTransactions ==
    operandStack = << >> \/ NumTransfers(operandStack) = MaxTransfers

\* while Transfers are pending, at most one of close and close-lot is
\* called, and open only to reopen the account just closed
FirstWhilePending ==
    operandStack = << >> \/ last.fn \notin {"open", "close", "close-lot"}

ReopenWhilePending ==
    operandStack = << >> \/ (last.fn = "close" /\ last.ok)

\* the top of the stack is a Transfer with an exchange rate
ExchangeOnTop ==
    /\ operandStack # << >>
    /\ IsTransfer(operandStack[Len(operandStack)])
    /\ operandStack[Len(operandStack)].ExchangeRate # NoExchangeRate

\* a text token that names no function: Parser.pushString
PushString(s) ==
    /\ InBody
    /\ OnlyStrings(operandStack)
    /\ Len(operandStack) < HeaderLength
    /\ operandStack' = Append(operandStack, Str(s))
    /\ last' = [fn |-> "", args |-> <<s>>, ok |-> TRUE]
    /\ token' = Token("String", s)
    /\ UNCHANGED <<Date, Accounts, Commodities, Tags, heap, markerStack, silenced, err,
                   report, closedNames>>

DateStmt(d) ==
    /\ InBody
    /\ operandStack = << >>
    /\ heap = << >> \/ (last.fn = "close" /\ last.ok /\ Commodities = << >>)
    /\ Dispatch("date", d, DateFunction(getOperands(d)))

CommodityStmt(cn) ==
    /\ InBody
    /\ operandStack = << >>
    /\ heap = << >>
    /\ Dispatch("commodity", <<cn, "description">>,
                CommodityFunction(getOperands(<<cn, "description">>)))

OpenStmt(an, cnames) ==
    /\ InBody
    /\ BetweenTransactions
    /\ ReopenWhilePending
    /\ Len(heap) < MaxHeap
    /\ DOMAIN Commodities \in {{}, CommodityNames}
    /\ Dispatch("open", <<an>> \o cnames, OpenFunction(getOperands(<<an>> \o cnames)))

CloseStmt(an) ==
    /\ InBody
    /\ BetweenTransactions
    /\ FirstWhilePending
    /\ Dispatch("close", <<an>>, CloseFunction(getOperands(<<an>>)))

CloseLotStmt(an, ln) ==
    /\ InBody
    /\ BetweenTransactions
    /\ FirstWhilePending
    /\ Dispatch("close-lot", <<an, ln>>, CloseLotFunction(getOperands(<<an, ln>>)))

AssertStmt(an, as, cn) ==
    /\ ~err
    /\ operandStack = << >>
    /\ Dispatch("assert", <<an, as, cn>>, AssertFunction(getOperands(<<an, as, cn>>)))

AssertLotStmt(an, ln, as, cn) ==
    /\ ~err
    /\ operandStack = << >>
    /\ Dispatch("assert-lot", <<an, ln, as, cn>>,
                AssertLotFunction(getOperands(<<an, ln, as, cn>>)))

AssertLotsSumStmt(an, as, cn) ==
    /\ ~err
    /\ operandStack = << >>
    /\ Dispatch("assert-lots-sum", <<an, as, cn>>,
                AssertLotsSumFunction(getOperands(<<an, as, cn>>)))

XferStmt(an, as, cn) ==
    /\ InBody
    /\ HeaderPushed
    /\ NumTransfers(operandStack) < MaxTransfers
    /\ Dispatch("xfer", <<an, as, cn>>, XferFunction(getOperands(<<an, as, cn>>)))

XferExchStmt(an, as, cn, tpq, tpcn) ==
    /\ InBody
    /\ HeaderPushed
    /\ NumTransfers(operandStack) < MaxTransfers
    /\ Dispatch("xfer-exch", <<an, as, cn, "1", tpcn, tpq, tpcn>>,
                XferExchFunction(getOperands(<<an, as, cn, "1", tpcn, tpq, tpcn>>)))

LotStmt(ln) ==
    /\ InBody
    /\ NumTransfers(operandStack) <= 1
    /\ ~ExchangeOnTop
    /\ Dispatch("lot", <<ln>>, LotFunction(getOperands(<<ln>>)))

CreateLotStmt(ln) ==
    /\ InBody
    /\ NumTransfers(operandStack) <= 1
    /\ ~ExchangeOnTop
    /\ Dispatch("create-lot", <<ln>>, CreateLotFunction(getOperands(<<ln>>)))

XactStmt(notes) ==
    /\ InBody
    /\ NumTransfers(operandStack) >= 1
    /\ WithinBalance(XactFunction(getOperands(notes)).heap)
    /\ Dispatch("xact", notes, XactFunction(getOperands(notes)))

TagStmt(an, ts) ==
    /\ ~err
    /\ operandStack = << >>
    /\ Dispatch("tag", <<an>> \o ts, TagFunction(getOperands(<<an>> \o ts)))

TagCommodityStmt(cn, ts) ==
    /\ ~err
    /\ operandStack = << >>
    /\ Dispatch("tag-commodity", <<cn>> \o ts,
                TagCommodityFunction(getOperands(<<cn>> \o ts)))

UntagStmt(an, ts) ==
    /\ ~err
    /\ operandStack = << >>
    /\ Dispatch("untag", <<an>> \o ts, UntagFunction(getOperands(<<an>> \o ts)))

(* The statements the explored ledgers are written with *)

\* the clock is set before the accounts are opened, to a date the calendar
\* lacks; a ledger that declares no commodity also moves it once an account
\* is closed, to the same day as the calendar names it; once the clock is set
\* a ledger also names a day before it
DateInputs ==
    (IF heap = << >> THEN {<<"2000", "1", "32">>} ELSE {<<"2000", "2", "1">>}) \cup
    (IF Date # ZeroDate THEN {<<"2000", "1", "1">>} ELSE {})

NoteInputs == {SubSeq(NoteTexts, 1, n) : n \in 1..Len(NoteTexts)}

\* Equity, the counter-account, is opened first and once; Assets:A is also
\* closed, reopened and emptied of lots
OpenInputs ==
    (IF operandStack = << >> THEN {<<InvalidAccountName>>} ELSE {}) \cup
    (IF "Equity" \in DOMAIN Accounts THEN {<<"Assets:A">>} ELSE {<<"Equity">>})

CloseInputs == {"Assets:A"}

BindLotNames == {"foo"}

\* the first Transfer of a transaction is to Assets:A, the others to Equity
XferInputs ==
    IF NumTransfers(operandStack) = 0
    THEN {<<"Assets:A", "1", "USD">>, <<"Assets:A", "-1", "USD">>, <<"Assets:A", "1", "JPY">>}
    ELSE IF NumTransfers(operandStack) = 1
    THEN {<<"Equity", "1", "USD">>, <<"Equity", "-1", "USD">>}
    ELSE {<<"Equity", "0", "USD">>}

XferExchInputs ==
    IF NumTransfers(operandStack) = 0
    THEN {<<"Assets:A", "-1", "JPY", "1", "USD">>}
    ELSE {}

AssertInputs ==
    {<<"Assets:A", as, cn>> : as \in {"0", "1"}, cn \in CommodityNames}

AssertLotInputs ==
    {<<"Assets:A", ln, as, "USD">> : ln \in LotNames, as \in {"0", "1"}}

AssertLotsSumInputs ==
    {<<"Assets:A", as, "USD">> : as \in {"0", "1", "2"}}

Next ==
    \/ PushString(EntityText) /\ UNCHANGED lexing
    \/ \E d \in DateInputs : DateStmt(d) /\ UNCHANGED lexing
    \/ \E cn \in CommodityNames : CommodityStmt(cn) /\ UNCHANGED lexing
    \/ \E i \in OpenInputs : OpenStmt(Head(i), Tail(i)) /\ UNCHANGED lexing
    \/ \E an \in CloseInputs : CloseStmt(an) /\ UNCHANGED lexing
    \/ \E an \in CloseInputs, ln \in LotNames : CloseLotStmt(an, ln) /\ UNCHANGED lexing
    \/ \E i \in AssertInputs : AssertStmt(i[1], i[2], i[3]) /\ UNCHANGED lexing
    \/ \E i \in AssertLotInputs : AssertLotStmt(i[1], i[2], i[3], i[4]) /\ UNCHANGED lexing
    \/ \E i \in AssertLotsSumInputs : AssertLotsSumStmt(i[1], i[2], i[3]) /\ UNCHANGED lexing
    \/ \E i \in XferInputs : XferStmt(i[1], i[2], i[3]) /\ UNCHANGED lexing
    \/ \E i \in XferExchInputs : XferExchStmt(i[1], i[2], i[3], i[4], i[5]) /\ UNCHANGED lexing
    \/ \E ln \in BindLotNames : LotStmt(ln) /\ UNCHANGED lexing
    \/ \E ln \in BindLotNames : CreateLotStmt(ln) /\ UNCHANGED lexing
    \/ \E notes \in NoteInputs : XactStmt(notes) /\ UNCHANGED lexing

Spec == Init /\ [][Next]_vars

(* Ledgers that tag: accounts and commodities are declared, accounts are   *)
(* closed and reopened, and tags are put on them and taken off.             *)

TagNames == {"foo", "bar"}

\* the tag operands of a statement: one to MaxTags tags, repeated or not
TagInputs == UNION {[1..n -> TagNames] : n \in 1..MaxTags}

\* the clock is set first; an account is reopened once
Dated == Date # ZeroDate

ReopenedOnce == Len(heap) <= Cardinality(AccountNames)

TagNext ==
    \/ \E d \in DateInputs : heap = << >> /\ Commodities = << >> /\ DateStmt(d) /\ UNCHANGED lexing
    \/ Dated /\ CommodityStmt("USD") /\ UNCHANGED lexing
    \/ \E i \in OpenInputs : Dated /\ ReopenedOnce /\ OpenStmt(Head(i), Tail(i)) /\ UNCHANGED lexing
    \/ \E an \in CloseInputs : Dated /\ CloseStmt(an) /\ UNCHANGED lexing
    \/ \E an \in AccountNames, ts \in TagInputs : TagStmt(an, ts) /\ UNCHANGED lexing
    \/ \E cn \in CommodityNames, ts \in TagInputs : TagCommodityStmt(cn, ts) /\ UNCHANGED lexing
    \/ \E an \in AccountNames, ts \in TagInputs : UntagStmt(an, ts) /\ UNCHANGED lexing

TagSpec == Init /\ [][TagNext]_vars

(* Ledgers that open accounts: of every category, of no category, with and  *)
(* without commodities, declared or not; Assets:A is closed and reopened.   *)

OpenNames ==
    {prefix \o "A" : prefix \in AccountPrefixes} \cup
    {"Equity", "Equity:", "EquityA", "Assets", InvalidAccountName}

CommodityLists == {<< >>, <<"USD">>, <<"USD", "JPY">>}

\* an account other than Assets:A is the first account of its ledger
OpenedFirst(an) == an # "Assets:A" => heap = << >>

\* open, whatever commodities are declared
OpenAccountStmt(an, cnames) ==
    /\ InBody
    /\ operandStack = << >>
    /\ Len(heap) < MaxHeap
    /\ Dispatch("open", <<an>> \o cnames, OpenFunction(getOperands(<<an>> \o cnames)))

OpenNext ==
    \/ heap = << >> /\ Commodities = << >> /\ DateStmt(<<"2000", "1", "1">>) /\ UNCHANGED lexing
    \/ \E cn \in CommodityNames : CommodityStmt(cn) /\ UNCHANGED lexing
    \/ \E an \in OpenNames, cnames \in CommodityLists :
          OpenedFirst(an) /\ OpenAccountStmt(an, cnames) /\ UNCHANGED lexing
    \/ CloseStmt("Assets:A") /\ UNCHANGED lexing

OpenSpec == Init /\ [][OpenNext]_vars

----------------------------------------------------------------------------
(* pkg/parser: the token loop of Parser.Parse over parentheses, silence and *)
(* registered Functions, and Parser.Finish.  A registered Function is a     *)
(* sequence of calls on its Operands view, followed by its result.          *)

\* the value a Function pushes
PushedText == "pushed"

\* Parser.Functions, the registry: Functions that leave the stack alone and
\* return nil or an error, that pop a fixed count, everything or more than
\* everything, that push, and that mix these calls
Functions ==
    ("inc" :> [ops |-> << >>, fails |-> FALSE]) @@
    ("fail" :> [ops |-> << >>, fails |-> TRUE]) @@
    ("test" :> [ops |-> <<"Pop2">>, fails |-> FALSE]) @@
    ("popall" :> [ops |-> <<"GetValues", "PopLength">>, fails |-> FALSE]) @@
    ("push" :> [ops |-> <<"Push">>, fails |-> FALSE]) @@
    ("greedy" :> [ops |-> <<"PopTooMany", "Push", "PopTooMany">>, fails |-> FALSE]) @@
    ("popfail" :> [ops |-> <<"PopTooMany">>, fails |-> TRUE])

FunctionNames == DOMAIN Functions

\* the count a call of Pop passes
PopCount(w, op) ==
    IF op = "Pop2" THEN 2
    ELSE IF op = "PopLength" THEN Length(w)
    ELSE Len(w.stack) + 1

\* the calls of a Function on its view, from the i-th on; got collects the
\* values the view has returned
RECURSIVE RunOps(_, _, _, _)
RunOps(w, ops, i, got) ==
    IF i > Len(ops) THEN [w |-> w, got |-> got]
    ELSE IF ops[i] = "Push"
    THEN RunOps(Push(w, Str(PushedText)), ops, i + 1, got)
    ELSE IF ops[i] = "GetValues"
    THEN RunOps(w, ops, i + 1, got \o GetValues(w))
    ELSE LET p == Pop(w, PopCount(w, ops[i]))
         IN  RunOps(p.w, ops, i + 1, got \o p.values)

\* the call f(text, p.getOperands(), p.Context) of the Function registered
\* as fn: its calls on the view, then nil or an error
CallFunction(fn, w) ==
    LET r == RunOps(w, Functions[fn].ops, 1, << >>)
    IN  [w |-> IF Functions[fn].fails THEN Fail(r.w) ELSE r.w, got |-> r.got]

TextsOf(values) == [i \in 1..Len(values) |-> values[i].s]

\* onCloseParen without the comparison of the marker and the stack
onCloseParenOfAnyLength(markers, sil, stack) ==
    IF Len(markers) = 0
    THEN [markerStack |-> markers, silenced |-> sil, e |-> UnmatchedCloseParen]
    ELSE [markerStack |-> SubSeq(markers, 1, Len(markers) - 1),
          silenced |-> IF Len(markers) = sil THEN 0 ELSE sil,
          e |-> NoError]

\* onCloseParen with silencing cleared by every close parenthesis
onCloseParenOfAnyScope(markers, sil, stack) ==
    IF Len(markers) = 0
    THEN [markerStack |-> markers, silenced |-> sil, e |-> UnmatchedCloseParen]
    ELSE LET index == markers[Len(markers)]
         IN  [markerStack |-> SubSeq(markers, 1, Len(markers) - 1),
              silenced |-> 0,
              e |-> IF index # Len(stack) THEN UnconsumedOperands ELSE NoError]

\* Parser.onCloseParen: the stacks it leaves and the error it returns
onCloseParen(markers, sil, stack) ==
    IF Len(markers) = 0
    THEN [markerStack |-> markers, silenced |-> sil, e |-> UnmatchedCloseParen]
    ELSE LET index == markers[Len(markers)]
         IN  [markerStack |-> SubSeq(markers, 1, Len(markers) - 1),
              silenced |-> IF Len(markers) = sil THEN 0 ELSE sil,
              e |-> IF index # Len(stack) THEN UnconsumedOperands ELSE NoError]

\* Finish that looks at the operand stack only
FinishOfOperands(stack, markers, sil) ==
    IF Len(stack) > 0 THEN UnconsumedTokens ELSE NoError

\* Finish that looks at silencing before the marker stack
FinishOfSilenceFirst(stack, markers, sil) ==
    IF Len(stack) > 0 THEN UnconsumedTokens
    ELSE IF sil # 0 THEN SilencedAtEOF
    ELSE IF Len(markers) > 0 THEN UnclosedParentheses
    ELSE NoError

\* Parser.Finish
Finish(stack, markers, sil) ==
    IF Len(stack) > 0 THEN UnconsumedTokens
    ELSE IF Len(markers) > 0 THEN UnclosedParentheses
    ELSE IF sil # 0 THEN SilencedAtEOF
    ELSE NoError

\* silence that is accepted outside parentheses
silenceAnywhere(markers, sil) ==
    [silenced |-> Len(markers), e |-> NoError]

\* the text silence of case String: the silence depth it leaves and the
\* error it returns
silence(markers, sil) ==
    IF Len(markers) = 0
    THEN [silenced |-> sil, e |-> SilenceOutsideParentheses]
    ELSE [silenced |-> Len(markers), e |-> NoError]

\* a Parser that takes no notice of silence
NeverSilenced(sil) == FALSE

\* the test p.silenced == 0 of Parser.Parse, negated
IsSilenced(sil) == sil # 0

\* a token loop that reads on after an error
RunningAfterErrors == token.type # "Error"

\* tokens are read until Parse returns
Running == ~err /\ token.type # "Error"

Context == <<Date, Accounts, Commodities, Tags, heap, closedNames>>

\* case String of Parser.Parse
StringToken(text) ==
    /\ Running
    /\ \/ /\ IsSilenced(silenced)
          /\ token' = Token("String", text)
          /\ last' = [fn |-> "", args |-> <<text>>, ok |-> TRUE]
          /\ UNCHANGED <<Context, operandStack, markerStack, silenced, err, report>>
       \/ /\ ~IsSilenced(silenced)
          /\ text = "silence"
          /\ token' = Token("String", text)
          /\ silenced' = silence(markerStack, silenced).silenced
          /\ report' = silence(markerStack, silenced).e
          /\ err' = (report' # NoError)
          /\ last' = [fn |-> "", args |-> <<text>>, ok |-> ~err']
          /\ UNCHANGED <<Context, operandStack, markerStack>>
       \/ /\ ~IsSilenced(silenced)
          /\ text \in FunctionNames
          /\ LET r == CallFunction(text, getOperands(<< >>))
             IN  /\ Len(r.w.stack) <= MaxOperands
                 /\ Dispatch(text, TextsOf(r.got), r.w)
       \/ /\ ~IsSilenced(silenced)
          /\ text # "silence"
          /\ text \notin FunctionNames
          /\ Len(operandStack) < MaxOperands
          /\ token' = Token("String", text)
          /\ operandStack' = Append(operandStack, Str(text))
          /\ last' = [fn |-> "", args |-> <<text>>, ok |-> TRUE]
          /\ UNCHANGED <<Context, markerStack, silenced, err, report>>

\* a QuotedString case that looks for the word silence as case String does
QuotedStringTokenOfKeywords(text) ==
    /\ Running
    /\ token' = Token("QuotedString", text)
    /\ IF ~IsSilenced(silenced) /\ text = "silence"
       THEN /\ silenced' = silence(markerStack, silenced).silenced
            /\ report' = silence(markerStack, silenced).e
            /\ err' = (report' # NoError)
            /\ last' = [fn |-> "", args |-> <<text>>, ok |-> ~err']
            /\ UNCHANGED <<Context, operandStack, markerStack>>
       ELSE /\ ~IsSilenced(silenced) => Len(operandStack) < MaxOperands
            /\ operandStack' = IF ~IsSilenced(silenced) THEN Append(operandStack, Str(text))
                               ELSE operandStack
            /\ last' = [fn |-> "", args |-> <<text>>, ok |-> TRUE]
            /\ UNCHANGED <<Context, markerStack, silenced, err, report>>

\* case QuotedString of Parser.Parse
QuotedStringToken(text) ==
    /\ Running
    /\ ~IsSilenced(silenced) => Len(operandStack) < MaxOperands
    /\ token' = Token("QuotedString", text)
    /\ operandStack' = IF ~IsSilenced(silenced) THEN Append(operandStack, Str(text)) ELSE operandStack
    /\ last' = [fn |-> "", args |-> <<text>>, ok |-> TRUE]
    /\ UNCHANGED <<Context, markerStack, silenced, err, report>>

\* case OpenParen of Parser.Parse
OpenParenToken ==
    /\ Running
    /\ Len(markerStack) < MaxDepth
    /\ token' = Token("OpenParen", "(")
    /\ markerStack' = Append(markerStack, Len(operandStack))
    /\ last' = [fn |-> "", args |-> << >>, ok |-> TRUE]
    /\ UNCHANGED <<Context, operandStack, silenced, err, report>>

\* case CloseParen of Parser.Parse
CloseParenToken ==
    /\ Running
    /\ LET r == onCloseParen(markerStack, silenced, operandStack)
       IN  /\ markerStack' = r.markerStack
           /\ silenced' = r.silenced
           /\ report' = r.e
           /\ err' = (r.e # NoError)
           /\ last' = [fn |-> "", args |-> << >>, ok |-> r.e = NoError]
    /\ token' = Token("CloseParen", ")")
    /\ UNCHANGED <<Context, operandStack>>

\* io.EOF: Parser.Parse returns nil and functions.Parser.Parse returns what
\* Parser.Finish returns
EndOfInput ==
    /\ Running
    /\ token' = Token("Error", "EOF")
    /\ report' = Finish(operandStack, markerStack, silenced)
    /\ err' = (report' # NoError)
    /\ last' = [fn |-> "", args |-> << >>, ok |-> ~err']
    /\ UNCHANGED <<Context, operandStack, markerStack, silenced>>

(* The inputs of the explored token streams *)

\* a text that names neither silence nor a Function: the numeral of the
\* place it is pushed to, so that a value tells where it was pushed
PlainTexts == {ToString(Len(operandStack) + 1)}

QuotedTexts == PlainTexts \cup {"silence", "fail"}

ParserNext ==
    \/ \E text \in PlainTexts \cup {"silence"} \cup FunctionNames : StringToken(text) /\ UNCHANGED lexing
    \/ \E text \in QuotedTexts : QuotedStringToken(text) /\ UNCHANGED lexing
    \/ OpenParenToken /\ UNCHANGED lexing
    \/ CloseParenToken /\ UNCHANGED lexing
    \/ EndOfInput /\ UNCHANGED lexing

ParserSpec == Init /\ [][ParserNext]_vars

----------------------------------------------------------------------------
(* Ledgers with comments: comment is called on an empty stack, on texts,    *)
(* on a Transfer, and inside a scope that hides the operands below it.      *)

CommentStmt(texts) ==
    /\ ~err
    /\ Dispatch("comment", texts, CommentFunction(getOperands(texts)))

CommentInputs == {<< >>, <<"note">>}

CommentNext ==
    \/ heap = << >> /\ Commodities = << >> /\ DateStmt(<<"2000", "1", "1">>) /\ UNCHANGED lexing
    \/ Dated /\ CommodityStmt("USD") /\ UNCHANGED lexing
    \/ Dated /\ heap = << >> /\ OpenAccountStmt("Assets:A", <<"USD">>) /\ UNCHANGED lexing
    \/ PushString(EntityText) /\ UNCHANGED lexing
    \/ heap # << >> /\ XferStmt("Assets:A", "1", "USD") /\ UNCHANGED lexing
    \/ OpenParenToken /\ UNCHANGED lexing
    \/ \E texts \in CommentInputs : CommentStmt(texts) /\ UNCHANGED lexing

CommentSpec == Init /\ [][CommentNext]_vars

----------------------------------------------------------------------------
(* cmd: a run with the -d flag.  runAccounts and runLots register, in place *)
(* of date, a Function that calls DateFunction and panics with done when    *)
(* the clock has passed the date of the flag; the panic is recovered and    *)
(* the report is printed from the Context as it is.                         *)

\* the date of the -d flag
CutOffDate == [Year |-> 2000, Month |-> 2, Day |-> 1]

\* what the run ends with when the panic done is recovered
Done == "done"

Stopped == report = Done

\* a wrapper that stops on the date of the flag as well
CutOffDateFunctionOfTheDay(w) ==
    LET r == DateFunction(w)
    IN  [w |-> r, done |-> ~r.err /\ EqualOrAfter(r.Date, CutOffDate)]

\* the Function registered as date: the world DateFunction leaves, and
\* whether it panics with done
CutOffDateFunction(w) ==
    LET r == DateFunction(w)
    IN  [w |-> r, done |-> ~r.err /\ After(r.Date, CutOffDate)]

CutOffDateStmt(d) ==
    /\ ~err
    /\ LET r == CutOffDateFunction(getOperands(d))
       IN  /\ Date' = r.w.Date
           /\ operandStack' = r.w.stack
           /\ err' = r.w.err
           /\ report' = IF r.done THEN Done ELSE IF r.w.err THEN FunctionError ELSE NoError
           /\ last' = [fn |-> "date", args |-> d, ok |-> ~r.w.err]
    /\ token' = Token("String", "date")
    /\ UNCHANGED <<Accounts, Commodities, Tags, heap, markerStack, silenced, closedNames>>

CutOffDateInputs ==
    {<<"2000", "1", "1">>, <<"2000", "1", "32">>, <<"2000", "2", "1">>, <<"2000", "2", "2">>}

CutOffNext ==
    \/ \E d \in CutOffDateInputs : ~Stopped /\ CutOffDateStmt(d) /\ UNCHANGED lexing
    \/ ~Stopped /\ CommodityStmt("USD") /\ UNCHANGED lexing
    \/ ~Stopped /\ OpenAccountStmt("Assets:A", << >>) /\ UNCHANGED lexing
    \/ ~Stopped /\ CloseStmt("Assets:A") /\ UNCHANGED lexing
    \/ ~Stopped /\ PushString(EntityText) /\ UNCHANGED lexing

CutOffSpec == Init /\ [][CutOffNext]_vars

----------------------------------------------------------------------------
(* The Lexer over a reader: a step is a pass of the loop of GetNextToken,   *)
(* which returns the pending parenthesis, or reads a rune and returns the   *)
(* token the rune completes, if any, or meets the end of the input.         *)

\* the token as the token loop knows it: an Error by its error, a
\* parenthesis by its rune
Returned(res) ==
    Token(res.tokenType,
          IF res.tokenType = "Error" THEN res.e
          ELSE IF res.tokenType = "OpenParen" THEN OpenRune
          ELSE IF res.tokenType = "CloseParen" THEN CloseRune
          ELSE res.token)

\* the pass has read rune and left the Lexer res.l
Scan(res, rune) ==
    /\ lexer' = res.l
    /\ read' = [rune |-> rune,
                newlines |-> read.newlines + (IF rune = Newline THEN 1 ELSE 0),
                start |-> IF rune \notin {"", EOF} /\ ~lexer.isInString /\ ~lexer.isEscaping
                          THEN LineNumber(lexer) ELSE read.start,
                eof |-> rune = EOF]

\* the explored inputs have MaxLine lines of strings of MaxText runes
Readable(r) ==
    /\ ~HasPendingParen(lexer)
    /\ ~read.eof
    /\ r = Newline => LineNumber(lexer) < MaxLine
    /\ Len(addRuneAndGetToken(lexer, r).l.token) <= MaxText

\* what the Lexer leaves alone
parsing == <<Context, operandStack, markerStack, silenced, err, report, last, reportLine>>

\* GetNextToken with a parenthesis pending
GetPendingParen ==
    /\ HasPendingParen(lexer)
    /\ Scan(ReturnPendingParen(lexer), "")
    /\ token' = Returned(ReturnPendingParen(lexer))
    /\ UNCHANGED parsing

\* a pass of the loop of GetNextToken that reads the rune r
ReadRune(r) ==
    /\ Readable(r)
    /\ Scan(addRuneAndGetToken(lexer, r), r)
    /\ token' = Returned(addRuneAndGetToken(lexer, r))
    /\ UNCHANGED parsing

\* a pass of the loop of GetNextToken that meets io.EOF
ReadEOF ==
    /\ ~HasPendingParen(lexer)
    /\ Scan(getFinalToken(lexer), EOF)
    /\ token' = Returned(getFinalToken(lexer))
    /\ UNCHANGED parsing

\* GetNextToken called until it returns an Error token: the tokens of the
\* input runes
RECURSIVE Lex(_, _)
Lex(l, runes) ==
    IF HasPendingParen(l)
    THEN <<Returned(ReturnPendingParen(l))>> \o Lex(ReturnPendingParen(l).l, runes)
    ELSE IF runes = << >>
    THEN IF getFinalToken(l).tokenType = "Error"
         THEN <<Returned(getFinalToken(l))>>
         ELSE <<Returned(getFinalToken(l))>> \o Lex(getFinalToken(l).l, runes)
    ELSE LET res == addRuneAndGetToken(l, Head(runes))
         IN  (IF res.tokenType = "none" THEN << >> ELSE <<Returned(res)>>) \o
             Lex(res.l, Tail(runes))

Runes == {"a", " ", Newline, Backslash, Quote, OpenRune, CloseRune}

LexerNext ==
    \/ GetPendingParen /\ UNCHANGED input
    \/ \E r \in Runes : ReadRune(r) /\ UNCHANGED input
    \/ ReadEOF /\ UNCHANGED input

LexerSpec == Init /\ [][LexerNext]_vars

----------------------------------------------------------------------------
(* functions.Parser.Parse: the token loop of Parser.Parse over the tokens   *)
(* of the Lexer, then Parser.Finish.  The date functions.Parser.Parse puts  *)
(* before an error of the token loop is left out of report.                 *)

SyntaxError == "syntax error"

\* formatError that puts no line number
formatErrorOfNoLine(l) == 0

\* Parser.formatError: the line number put before the error
formatError(l) == LineNumber(l)

\* case Error of Parser.Parse for an error that is not io.EOF
SyntaxErrorToken(e) ==
    /\ Running
    /\ token' = Token("Error", e)
    /\ report' = SyntaxError
    /\ err' = TRUE
    /\ last' = [fn |-> "", args |-> << >>, ok |-> FALSE]
    /\ UNCHANGED <<Context, operandStack, markerStack, silenced>>

\* the switch of Parser.Parse on the token of the pass; without a token the
\* loop of GetNextToken reads on
ParseToken(res) ==
    CASE res.tokenType = "String" -> StringToken(res.token)
      [] res.tokenType = "QuotedString" -> QuotedStringToken(res.token)
      [] res.tokenType = "OpenParen" -> OpenParenToken
      [] res.tokenType = "CloseParen" -> CloseParenToken
      [] res.tokenType = "Error" /\ res.e = EOF -> EndOfInput
      [] res.tokenType = "Error" /\ res.e # EOF -> SyntaxErrorToken(res.e)
      [] res.tokenType = "none" ->
            /\ Running
            /\ token' = Token("none", "")
            /\ UNCHANGED <<Context, operandStack, markerStack, silenced, err, report, last>>

\* an error of the token loop is formatted with the line number of the
\* Lexer; an error of Finish is returned as it is
Parse(res, rune) ==
    /\ Scan(res, rune)
    /\ ParseToken(res)
    /\ reportLine' = IF err' /\ ~(res.tokenType = "Error" /\ res.e = EOF)
                     THEN formatError(res.l) ELSE 0

\* the words the explored ledgers are written with
Words == {<<"f", "a", "i", "l">>, <<"1">>}

Spelling(runes) ==
    \E word \in Words : Len(runes) <= Len(word) /\ SubSeq(word, 1, Len(runes)) = runes

\* the string under way begins a word, a string that ends is a word, and
\* no scope is opened inside a scope
Spelled(res) ==
    /\ Spelling(res.l.token)
    /\ res.tokenType = "OpenParen" => markerStack = << >>
    /\ res.tokenType = "String" => lexer.token \in Words
    /\ res.tokenType = "QuotedString" => lexer.token \in Words \cup {<< >>}

ParsePendingParen ==
    /\ HasPendingParen(lexer)
    /\ Spelled(ReturnPendingParen(lexer))
    /\ Parse(ReturnPendingParen(lexer), "")

ParseRune(r) ==
    /\ ~HasPendingParen(lexer)
    /\ r = Newline => LineNumber(lexer) < MaxLine
    /\ Spelled(addRuneAndGetToken(lexer, r))
    /\ Parse(addRuneAndGetToken(lexer, r), r)

ParseEOF ==
    /\ ~HasPendingParen(lexer)
    /\ getFinalToken(lexer).tokenType = "String" => lexer.token \in Words
    /\ Parse(getFinalToken(lexer), EOF)

LedgerRunes ==
    UNION {{word[i] : i \in 1..Len(word)} : word \in Words} \cup
    {" ", Newline, Backslash, Quote, OpenRune, CloseRune}

RunNext ==
    \/ ParsePendingParen /\ UNCHANGED input
    \/ \E r \in LedgerRunes : ParseRune(r) /\ UNCHANGED input
    \/ ParseEOF /\ UNCHANGED input

RunSpec == Init /\ [][RunNext]_vars

----------------------------------------------------------------------------
(* Ledgers of lots: Assets:A takes USD only, Equity any commodity; every    *)
(* Transfer of a transaction may be bound to the lot foo, by lot or by      *)
(* create-lot, the lot may be closed while Transfers are pending, and the   *)
(* clock moves between transactions.                                        *)

\* the Transfer on top of the stack is not bound to a lot yet
UnboundOnTop ==
    /\ operandStack # << >>
    /\ IsTransfer(operandStack[Len(operandStack)])
    /\ operandStack[Len(operandStack)].LotName = ""
    /\ ~operandStack[Len(operandStack)].CreateLot

ClockStmt(d) ==
    /\ InBody
    /\ operandStack = << >>
    /\ Dispatch("date", d, DateFunction(getOperands(d)))

BindLotStmt(ln) ==
    /\ InBody
    /\ UnboundOnTop
    /\ Dispatch("lot", <<ln>>, LotFunction(getOperands(<<ln>>)))

BindCreateLotStmt(ln) ==
    /\ InBody
    /\ UnboundOnTop
    /\ Dispatch("create-lot", <<ln>>, CreateLotFunction(getOperands(<<ln>>)))

\* the transactions of the explored ledgers have two Transfers
PairPending == NumTransfers(operandStack) = 2

CloseLotWhilePendingStmt(an, ln) ==
    /\ InBody
    /\ PairPending
    /\ last.fn # "close-lot"
    /\ Dispatch("close-lot", <<an, ln>>, CloseLotFunction(getOperands(<<an, ln>>)))

\* the clock is set first and moved once the accounts are opened
LotsDateInputs ==
    IF Date = ZeroDate THEN {<<"2000", "1", "1">>}
    ELSE IF DOMAIN Accounts = AccountNames THEN {<<"2000", "1", "2">>}
    ELSE {}

\* Equity is opened first
LotsOpenInputs ==
    IF Accounts = << >> THEN {<<"Equity">>} ELSE {<<"Assets:A", "USD">>}

\* the first Transfer of a transaction adds to Assets:A, the second takes
\* from Assets:A or pays in JPY from Equity
LotsXferInputs ==
    IF NumTransfers(operandStack) = 0
    THEN {<<"Assets:A", "1", "USD">>, <<"Assets:A", "1", "JPY">>}
    ELSE {<<"Assets:A", "-1", "USD">>, <<"Equity", "-1", "JPY">>}

LotsXferExchInputs ==
    IF NumTransfers(operandStack) = 0
    THEN {<<"Assets:A", "1", "USD", "1", "JPY">>, <<"Assets:A", "1", "JPY", "1", "USD">>}
    ELSE {}

LotsNext ==
    \/ PushString(EntityText) /\ UNCHANGED lexing
    \/ \E d \in LotsDateInputs : ClockStmt(d) /\ UNCHANGED lexing
    \/ \E cn \in CommodityNames : CommodityStmt(cn) /\ UNCHANGED lexing
    \/ \E i \in LotsOpenInputs :
          /\ DOMAIN Commodities = CommodityNames
          /\ Head(i) \notin DOMAIN Accounts
          /\ OpenAccountStmt(Head(i), Tail(i))
          /\ UNCHANGED lexing
    \/ \E i \in LotsXferInputs :
          /\ DOMAIN Accounts = AccountNames
          /\ ~PairPending
          /\ XferStmt(i[1], i[2], i[3])
          /\ UNCHANGED lexing
    \/ \E i \in LotsXferExchInputs :
          /\ DOMAIN Accounts = AccountNames
          /\ XferExchStmt(i[1], i[2], i[3], i[4], i[5])
          /\ UNCHANGED lexing
    \/ BindLotStmt("foo") /\ UNCHANGED lexing
    \/ BindCreateLotStmt("foo") /\ UNCHANGED lexing
    \/ CloseLotWhilePendingStmt("Assets:A", "foo") /\ UNCHANGED lexing
    \/ PairPending /\ XactStmt(<< >>) /\ UNCHANGED lexing

LotsSpec == Init /\ [][LotsNext]_vars

----------------------------------------------------------------------------
(* functions.Parser.Parse over a finite stream: the reader holds the runes  *)
(* of input, ReadRune takes the first of them and returns io.EOF when none  *)
(* is left.  The program is sequential: a pass that can be taken is taken.  *)

MaxInput == 3

StreamRunes == {"1", " ", Newline, Backslash, Quote, OpenRune, CloseRune}

RECURSIVE Count(_, _)
Count(runes, r) ==
    IF runes = << >> THEN 0
    ELSE (IF Head(runes) = r THEN 1 ELSE 0) + Count(Tail(runes), r)

\* the explored streams: every stream of MaxInput runes at most that opens
\* MaxDepth scopes at most, and two ledgers that call a Function
Streams ==
    {s \in UNION {[1..n -> StreamRunes] : n \in 0..MaxInput} : Count(s, OpenRune) <= MaxDepth}
    \cup {<<"f", "a", "i", "l", Newline, "1">>,
          <<OpenRune, CloseRune, Newline, "i", "n", "c">>}

StreamInit == NewParser /\ input \in Streams

\* a call of GetNextToken with a parenthesis pending
NextPendingParen ==
    /\ HasPendingParen(lexer)
    /\ Parse(ReturnPendingParen(lexer), "")
    /\ UNCHANGED input

\* a pass of the loop of GetNextToken: ReadRune returns the next rune
NextRune ==
    /\ ~HasPendingParen(lexer)
    /\ input # << >>
    /\ Parse(addRuneAndGetToken(lexer, Head(input)), Head(input))
    /\ input' = Tail(input)

\* a pass of the loop of GetNextToken: ReadRune returns io.EOF
NextEOF ==
    /\ ~HasPendingParen(lexer)
    /\ input = << >>
    /\ Parse(getFinalToken(lexer), EOF)
    /\ UNCHANGED input

StreamNext ==
    \/ NextPendingParen
    \/ NextRune
    \/ NextEOF

StreamSpec == StreamInit /\ [][StreamNext]_vars /\ WF_vars(StreamNext)

----------------------------------------------------------------------------
(* Properties.  The statement a step executes is read from last', its      *)
(* operands from last'.args, its outcome from last'.ok; the unprimed        *)
(* variables are the state the statement is called in.                      *)

\* the balance of commodity cn in lot ln of Account object i of h; an
\* absent lot or entry counts as zero
BalanceOf(h, i, ln, cn) ==
    IF ln \in DOMAIN h[i].Lots /\ cn \in DOMAIN h[i].Lots[ln]
    THEN h[i].Lots[ln][cn].Balance.Amount
    ELSE 0

\* the Transfers on the operand stack, bottom first
PendingTransfers == SelectSeq(operandStack, IsTransfer)

\* the stack holds an entity, a description and at least two Transfers on
\* top of them, and the notes are an even number of strings
CalledWithTransaction(notes) ==
    LET n == NumTransfers(operandStack) IN
    /\ n >= 2
    /\ Len(operandStack) >= n + HeaderLength
    /\ \A i \in 1..Len(operandStack) :
           IsTransfer(operandStack[i]) <=> i > Len(operandStack) - n
    /\ Len(notes) % 2 = 0

\* the quantity a Transfer counts for in the balance of a transaction
ExchangeAware(t) ==
    IF t.ExchangeRate = << >> THEN t.Quantity ELSE t.ExchangeRate[1].TotalPrice

OneCommodity(ts) ==
    \A i, j \in 1..Len(ts) : ExchangeAware(ts[i]).Commodity = ExchangeAware(ts[j]).Commodity

RECURSIVE ExchangeAwareSum(_)
ExchangeAwareSum(ts) ==
    IF ts = << >> THEN 0 ELSE ExchangeAware(Head(ts)).Amount + ExchangeAwareSum(Tail(ts))

\* the signed quantity amounts of the Transfers of ts that target commodity
\* cn in lot ln of Account object i
RECURSIVE AmountInto(_, _, _, _)
AmountInto(ts, i, ln, cn) ==
    IF ts = << >> THEN 0
    ELSE (IF /\ Head(ts).Account = i
             /\ Head(ts).LotName = ln
             /\ Head(ts).Quantity.Commodity = cn
          THEN Head(ts).Quantity.Amount ELSE 0) + AmountInto(Tail(ts), i, ln, cn)

\* every Transfer is flagged to create its lot, or its lot is in its account,
\* or an earlier Transfer of the transaction creates it
TargetLotsAvailable(ts) ==
    \A i \in 1..Len(ts) :
        \/ ts[i].CreateLot
        \/ ts[i].LotName \in DOMAIN heap[ts[i].Account].Lots
        \/ \E j \in 1..(i - 1) : /\ ts[j].Account = ts[i].Account
                                 /\ ts[j].LotName = ts[i].LotName
                                 /\ ts[j].CreateLot

\* every Transfer's account has its default lot
DefaultLotsPresent(ts) == \A i \in 1..Len(ts) : "" \in DOMAIN heap[ts[i].Account].Lots

\* the balances of the accounts of the Context move by the Transfers ts
BalancesMovedBy(ts) ==
    /\ Accounts' = Accounts
    /\ \A an \in DOMAIN Accounts : \A ln \in LotNames : \A cn \in CommodityNames :
           BalanceOf(heap', Accounts[an], ln, cn) =
               BalanceOf(heap, Accounts[an], ln, cn) + AmountInto(ts, Accounts[an], ln, cn)

\* no account of the Context has a lot changed, created or removed
LotsUnchanged ==
    /\ Accounts' = Accounts
    /\ \A an \in DOMAIN Accounts : heap'[Accounts[an]].Lots = heap[Accounts[an]].Lots

Balanced(ts) == OneCommodity(ts) /\ ExchangeAwareSum(ts) = 0

\* C1 (as stated): xact called with an entity, a description, at least two
\* Transfers and an even number of notes succeeds whenever the Transfers'
\* exchange-aware quantities are in one commodity and sum to zero (here for
\* Transfers whose accounts all have their default lot).
XactSucceedsWhenBalanced ==
    [][(/\ last'.fn = "xact"
        /\ CalledWithTransaction(last'.args)
        /\ Balanced(PendingTransfers)
        /\ DefaultLotsPresent(PendingTransfers))
       => last'.ok]_vars

\* C1 (amended): such an xact succeeds whenever, besides, every Transfer is
\* flagged to create its lot or targets a lot its account has (or an earlier
\* Transfer of the xact creates); then every (account, lot, commodity)
\* balance of the Context has changed by exactly the sum of the signed
\* quantity amounts, not the total prices, of the Transfers that target it.
XactAppliesQuantities ==
    [][(/\ last'.fn = "xact"
        /\ CalledWithTransaction(last'.args)
        /\ Balanced(PendingTransfers)
        /\ TargetLotsAvailable(PendingTransfers))
       => (last'.ok /\ BalancesMovedBy(PendingTransfers))]_vars

\* a balanced xact with an exchange Transfer has been applied: Assets:A's
\* default lot holds -1 JPY, acquired for a total price of 1 USD that
\* Equity's -1 USD balances
XactExchangeApplied ==
    /\ last.fn = "xact" /\ last.ok
    /\ "Assets:A" \in DOMAIN Accounts /\ "Equity" \in DOMAIN Accounts
    /\ "" \in DOMAIN heap[Accounts["Assets:A"]].Lots
    /\ DOMAIN heap[Accounts["Assets:A"]].Lots[""] = {"JPY"}
    /\ heap[Accounts["Assets:A"]].Lots[""]["JPY"].Balance.Amount = -1
    /\ heap[Accounts["Assets:A"]].Lots[""]["JPY"].ExchangeRate # << >>
    /\ heap[Accounts["Assets:A"]].Lots[""]["JPY"].ExchangeRate[1].TotalPrice.Amount = 1
    /\ BalanceOf(heap, Accounts["Equity"], "", "USD") = -1

\* C2: when the Transfers' exchange-aware quantities are not in one
\* commodity or do not sum to zero, or there are fewer than two Transfers or
\* an odd number of notes, xact fails, and no lot of any account of the
\* Context is changed or created.
XactRejectsUnbalanced ==
    [][(/\ last'.fn = "xact"
        /\ \/ NumTransfers(operandStack) < 2
           \/ Len(last'.args) % 2 = 1
           \/ ~OneCommodity(PendingTransfers)
           \/ ExchangeAwareSum(PendingTransfers) # 0)
       => (~last'.ok /\ LotsUnchanged)]_vars

\* an xact with two Transfers and an odd number of notes has failed
XactRejectedOddNotes ==
    /\ last.fn = "xact" /\ ~last.ok /\ err
    /\ Len(last.args) % 2 = 1
    /\ NumTransfers(operandStack) >= 2

\* the Account object registered under the name an
Registered(an) == heap[Accounts[an]]

\* some commodity of lot ln of the account a has a nonzero balance
LotNonzero(a, ln) == \E cn \in DOMAIN a.Lots[ln] : a.Lots[ln][cn].Balance.Amount # 0

\* the account an exists and is not closed at the current date
ExistsOpen(an) == an \in DOMAIN Accounts /\ ~IsClosed(Registered(an), Date)

\* close of an can succeed: the account exists, is not closed at the current
\* date and has no named lot with a nonzero balance
Closable(an) ==
    /\ ExistsOpen(an)
    /\ \A ln \in DOMAIN Registered(an).Lots \ {""} : ~LotNonzero(Registered(an), ln)

DefaultLotNonzero(an) ==
    /\ "" \in DOMAIN Registered(an).Lots
    /\ LotNonzero(Registered(an), "")

\* C3 (as stated): close fails on an account whose default lot holds a
\* nonzero balance in some commodity.
CloseFailsOnNonzeroDefaultLot ==
    [][(/\ last'.fn = "close"
        /\ last'.args[1] \in DOMAIN Accounts
        /\ DefaultLotNonzero(last'.args[1]))
       => ~last'.ok]_vars

\* C3 (amended): close succeeds on an existing account, not closed at the
\* current date, whose default lot holds a nonzero balance, when none of its
\* named lots does; the balance stays in the closed account.
CloseIgnoresDefaultLot ==
    [][(/\ last'.fn = "close"
        /\ Closable(last'.args[1])
        /\ DefaultLotNonzero(last'.args[1]))
       => (/\ last'.ok
           /\ Accounts' = Accounts
           /\ heap'[Accounts[last'.args[1]]].ClosingDate = Date
           /\ heap'[Accounts[last'.args[1]]].Lots = Registered(last'.args[1]).Lots)]_vars

\* Assets:A has been closed with 1 or -1 USD in its default lot
ClosedWithDefaultBalance ==
    /\ last.fn = "close" /\ last.ok /\ last.args = <<"Assets:A">>
    /\ IsClosed(Registered("Assets:A"), Date)
    /\ BalanceOf(heap, Accounts["Assets:A"], "", "USD") # 0

\* C4: close succeeds exactly when the account exists, is not closed at the
\* current date and every named lot has a zero balance in every commodity,
\* whatever the default lot holds; on success the closing date becomes the
\* clock's date and nothing else changes; on failure nothing changes.
CloseSucceedsExactlyWhenClosable ==
    [][last'.fn = "close"
       => (/\ last'.ok <=> Closable(last'.args[1])
           /\ last'.ok =>
                heap' = [heap EXCEPT ![Accounts[last'.args[1]]].ClosingDate = Date]
           /\ ~last'.ok => heap' = heap
           /\ UNCHANGED <<Date, Accounts, Commodities, operandStack>>)]_vars

\* Assets:A has been closed while it has the named lot foo, with a zero
\* balance, and a nonzero balance in its default lot
ClosedWithZeroNamedLot ==
    /\ last.fn = "close" /\ last.ok /\ last.args = <<"Assets:A">>
    /\ Registered("Assets:A").ClosingDate = Date
    /\ "foo" \in DOMAIN Registered("Assets:A").Lots
    /\ "USD" \in DOMAIN Registered("Assets:A").Lots["foo"]
    /\ ~LotNonzero(Registered("Assets:A"), "foo")
    /\ DefaultLotNonzero("Assets:A")

\* the statements that name an account in their first operand
AccountStatements ==
    {"close", "close-lot", "xfer", "xfer-exch", "assert", "assert-lot", "assert-lots-sum"}

\* C5 (as stated): once close has succeeded on an account, and until an open
\* of its name succeeds, a second close of it fails, and so do xfer,
\* xfer-exch, assert, assert-lot, assert-lots-sum and close-lot naming it,
\* at any clock value.
ClosedUntilReopened ==
    [][(last'.fn \in AccountStatements /\ last'.args[1] \in closedNames)
       => ~last'.ok]_vars

\* C6 (as stated): every account registered in the Context has a default
\* lot in every reachable state.
DefaultLotAlwaysExists ==
    \A an \in DOMAIN Accounts : "" \in DOMAIN Registered(an).Lots

\* the amount a statement asserts, read from its text operand
Asserted(as) == NumberValue[as]

\* the sum of commodity cn over the lots of the account a
RECURSIVE TotalOver(_, _, _)
TotalOver(a, lns, cn) ==
    IF lns = {} THEN 0
    ELSE LET ln == CHOOSE l \in lns : TRUE
         IN  (IF cn \in DOMAIN a.Lots[ln] THEN a.Lots[ln][cn].Balance.Amount ELSE 0)
                 + TotalOver(a, lns \ {ln}, cn)

\* the statement changes nothing of the Context or the stack
NothingChanges == UNCHANGED <<Date, Accounts, Commodities, heap, operandStack>>

\* C7: assert-lots-sum on an existing open account and an existing
\* commodity succeeds exactly when the asserted amount equals the sum of
\* that commodity's balance over every lot of the account; it changes no
\* state.
AssertLotsSumIsTheSum ==
    [][(/\ last'.fn = "assert-lots-sum"
        /\ ExistsOpen(last'.args[1])
        /\ last'.args[3] \in DOMAIN Commodities)
       => (/\ last'.ok <=>
                Asserted(last'.args[2]) =
                    TotalOver(Registered(last'.args[1]),
                              DOMAIN Registered(last'.args[1]).Lots, last'.args[3])
           /\ NothingChanges)]_vars

\* assert-lots-sum of 2 USD has succeeded on Assets:A, which holds 1 USD in
\* its default lot and 1 USD in the lot foo
AssertedSumOfTwoLots ==
    /\ last.fn = "assert-lots-sum" /\ last.ok
    /\ last.args = <<"Assets:A", "2", "USD">>
    /\ BalanceOf(heap, Accounts["Assets:A"], "", "USD") = 1
    /\ BalanceOf(heap, Accounts["Assets:A"], "foo", "USD") = 1

\* C8: assert on an existing open account and an existing commodity
\* succeeds exactly when the account's default lot holds that commodity
\* with the asserted balance, or holds no entry for it and the asserted
\* amount is zero; named lots are ignored (an account whose default lot has
\* been removed has no default lot to hold anything: assert fails); assert
\* changes nothing.
AssertReadsDefaultLot ==
    [][(/\ last'.fn = "assert"
        /\ ExistsOpen(last'.args[1])
        /\ last'.args[3] \in DOMAIN Commodities)
       => (/\ last'.ok <=>
                /\ "" \in DOMAIN Registered(last'.args[1]).Lots
                /\ IF last'.args[3] \in DOMAIN Registered(last'.args[1]).Lots[""]
                   THEN Registered(last'.args[1]).Lots[""][last'.args[3]].Balance.Amount
                            = Asserted(last'.args[2])
                   ELSE Asserted(last'.args[2]) = 0
           /\ NothingChanges)]_vars

\* assert of 0 JPY has succeeded on Assets:A, whose default lot has no JPY
\* entry, while its lot foo holds a nonzero USD balance
AssertedZeroOfAbsentEntry ==
    /\ last.fn = "assert" /\ last.ok
    /\ last.args = <<"Assets:A", "0", "JPY">>
    /\ "" \in DOMAIN Registered("Assets:A").Lots
    /\ "JPY" \notin DOMAIN Registered("Assets:A").Lots[""]
    /\ BalanceOf(heap, Accounts["Assets:A"], "foo", "USD") # 0

\* C9 (as stated): assert-lot of a zero amount succeeds on an existing open
\* account and an existing commodity when the named lot is absent from the
\* account.
AssertLotZeroOfAbsentLot ==
    [][(/\ last'.fn = "assert-lot"
        /\ ExistsOpen(last'.args[1])
        /\ last'.args[4] \in DOMAIN Commodities
        /\ last'.args[2] # ""
        /\ last'.args[2] \notin DOMAIN Registered(last'.args[1]).Lots
        /\ Asserted(last'.args[3]) = 0)
       => last'.ok]_vars

\* C9 (amended): assert-lot on an existing open account and an existing
\* commodity fails whenever the lot is absent from the account, whatever the
\* amount; when the lot is there, it succeeds exactly when the lot holds the
\* commodity with the asserted balance, or holds no entry for it and the
\* asserted amount is zero.
AssertLotNeedsTheLot ==
    [][(/\ last'.fn = "assert-lot"
        /\ ExistsOpen(last'.args[1])
        /\ last'.args[4] \in DOMAIN Commodities)
       => (last'.ok <=>
             /\ last'.args[2] \in DOMAIN Registered(last'.args[1]).Lots
             /\ IF last'.args[4] \in DOMAIN Registered(last'.args[1]).Lots[last'.args[2]]
                THEN Registered(last'.args[1]).Lots[last'.args[2]][last'.args[4]].Balance.Amount
                         = Asserted(last'.args[3])
                ELSE Asserted(last'.args[3]) = 0)]_vars

\* assert-lot of 0 USD has failed on the open account Assets:A, which has no
\* lot foo
AssertLotFailedOnAbsentLot ==
    /\ last.fn = "assert-lot" /\ ~last.ok /\ err
    /\ last.args = <<"Assets:A", "foo", "0", "USD">>
    /\ ExistsOpen("Assets:A")
    /\ "USD" \in DOMAIN Commodities
    /\ "foo" \notin DOMAIN Registered("Assets:A").Lots

\* close-lot of lot ln of account an can succeed
LotClosable(an, ln) ==
    /\ ExistsOpen(an)
    /\ ln \in DOMAIN Registered(an).Lots
    /\ ~LotNonzero(Registered(an), ln)

\* C10: close-lot succeeds exactly when the account exists and is open, the
\* lot exists and every commodity entry of the lot has a zero balance; it
\* then removes the lot with its entries and leaves every other lot and the
\* rest of the account unchanged; when it fails nothing changes.
CloseLotRemovesZeroLot ==
    [][last'.fn = "close-lot"
       => (/\ last'.ok <=> LotClosable(last'.args[1], last'.args[2])
           /\ last'.ok =>
                /\ DOMAIN heap'[Accounts[last'.args[1]]].Lots =
                       DOMAIN Registered(last'.args[1]).Lots \ {last'.args[2]}
                /\ \A ln \in DOMAIN heap'[Accounts[last'.args[1]]].Lots :
                       heap'[Accounts[last'.args[1]]].Lots[ln] =
                           Registered(last'.args[1]).Lots[ln]
                /\ heap' = [heap EXCEPT ![Accounts[last'.args[1]]].Lots =
                                          heap'[Accounts[last'.args[1]]].Lots]
           /\ ~last'.ok => heap' = heap
           /\ UNCHANGED <<Date, Accounts, Commodities, operandStack>>)]_vars

\* close-lot has removed the lot foo of Assets:A, whose default lot holds a
\* nonzero USD balance
ClosedLotBesideDefaultBalance ==
    /\ last.fn = "close-lot" /\ last.ok
    /\ last.args = <<"Assets:A", "foo">>
    /\ "foo" \notin DOMAIN Registered("Assets:A").Lots
    /\ DefaultLotNonzero("Assets:A")

\* the date a date statement names with its three operands
DateOf(args) ==
    [Year |-> NumberValue[args[1]], Month |-> NumberValue[args[2]],
     Day |-> NumberValue[args[3]]]

\* C11: a date call whose date is before the clock fails and leaves the clock
\* unchanged; a date call whose date is equal to or after the clock succeeds
\* and sets the clock to it; no other statement changes the clock, and the
\* clock is never set to a day before the one it names
ClockIsMonotonic ==
    [][/\ last'.fn = "date"
          => LET d == DateOf(last'.args)
             IN  /\ Before(d, Date) => (~last'.ok /\ Date' = Date)
                 /\ EqualOrAfter(d, Date) => (last'.ok /\ Date' = d)
       /\ last'.fn # "date" => Date' = Date
       /\ ~Before(Date', Date)]_vars

\* a date statement has named a day before the clock and has failed
DateBeforeClockRejected ==
    /\ last.fn = "date"
    /\ ~last.ok
    /\ Date # ZeroDate
    /\ Before(DateOf(last.args), Date)

\* how often the slice of a tag holds an object
Occurrences(tts, target) == Cardinality({i \in 1..Len(tts) : tts[i] = target})

\* the tag operands of a tag, tag-commodity or untag statement
TagOperands(args) == {args[i] : i \in 2..Len(args)}

\* C12: after a successful tag (tag-commodity) every tag operand is in the
\* tag set of the account (commodity) and the index holds the object exactly
\* once under that tag, also when the operand is repeated in the call; when
\* the object carries every tag operand already, the call changes neither
\* the tag set nor the index
TaggingIsIdempotent ==
    [][/\ (last'.fn = "tag" /\ last'.ok)
          => LET acct == Accounts[last'.args[1]]
                 ts == TagOperands(last'.args)
             IN  /\ \A t \in ts :
                       /\ HasTag(heap'[acct], t)
                       /\ t \in DOMAIN Tags'
                       /\ Occurrences(Tags'[t], AccountTarget(acct)) = 1
                 /\ ts \subseteq heap[acct].Tags
                      => (Tags' = Tags /\ heap'[acct].Tags = heap[acct].Tags)
       /\ (last'.fn = "tag-commodity" /\ last'.ok)
          => LET cn == last'.args[1]
                 ts == TagOperands(last'.args)
             IN  /\ \A t \in ts :
                       /\ t \in Commodities'[cn].Tags
                       /\ t \in DOMAIN Tags'
                       /\ Occurrences(Tags'[t], CommodityTarget(cn)) = 1
                 /\ ts \subseteq Commodities[cn].Tags
                      => (Tags' = Tags /\ Commodities' = Commodities)]_vars

\* a tag statement names one tag twice, on an account whose tag is also on
\* another object
TaggedTwiceInOneCall ==
    /\ last.fn = "tag"
    /\ last.ok
    /\ Len(last.args) = 3
    /\ last.args[2] = last.args[3]
    /\ Len(Tags[last.args[2]]) >= 2

\* the objects the slice of a tag holds; none when the index lacks the tag
TargetsOf(tags, t) ==
    IF t \in DOMAIN tags THEN {tags[t][i] : i \in 1..Len(tags[t])} ELSE {}

\* C13: untag succeeds on an existing open account; it takes every tag
\* operand off the account's tag set and the account out of the tag's slice,
\* where every other object stays exactly once; an emptied entry is deleted;
\* the entries of other tags, the other accounts and the commodities are
\* unchanged, and when the account carries none of the operands nothing
\* changes at all
UntagRemovesTheAccountOnly ==
    [][(last'.fn = "untag" /\ ExistsOpen(last'.args[1]))
          => LET acct == Accounts[last'.args[1]]
                 ts == TagOperands(last'.args)
             IN  /\ last'.ok
                 /\ heap'[acct].Tags = heap[acct].Tags \ ts
                 /\ \A t \in ts :
                       /\ TargetsOf(Tags', t) = TargetsOf(Tags, t) \ {AccountTarget(acct)}
                       /\ t \in DOMAIN Tags' <=> TargetsOf(Tags', t) # {}
                       /\ t \in DOMAIN Tags'
                            => Len(Tags'[t]) = Cardinality(TargetsOf(Tags', t))
                 /\ \A t \in (DOMAIN Tags \cup DOMAIN Tags') \ ts :
                       t \in DOMAIN Tags /\ t \in DOMAIN Tags' /\ Tags'[t] = Tags[t]
                 /\ \A i \in 1..Len(heap) : i # acct => heap'[i] = heap[i]
                 /\ UNCHANGED <<Date, Accounts, Commodities, operandStack>>
                 /\ ts \cap heap[acct].Tags = {} => (Tags' = Tags /\ heap' = heap)]_vars

\* untag has named one tag twice and another object still carries the tag
UntaggedTwiceBesideAnother ==
    /\ last.fn = "untag"
    /\ last.ok
    /\ Len(last.args) = 3
    /\ last.args[2] = last.args[3]
    /\ last.args[2] \in DOMAIN Tags
    /\ ~HasTag(Registered(last.args[1]), last.args[2])

----------------------------------------------------------------------------
(* Properties of the token loop.  token' is the token a step reads;        *)
(* last'.fn names the Function the step calls, and is empty when it calls   *)
(* none.                                                                    *)

\* C14: while silencing is active no step calls a Function or changes the
\* operand stack or the Context, and a String or QuotedString token changes
\* nothing of the parser and raises no error, whatever its text
SilencedTokensDoNothing ==
    [][silenced # 0
          => /\ last'.fn = ""
             /\ UNCHANGED <<Context, operandStack>>
             /\ token'.type \in {"String", "QuotedString"}
                  => (UNCHANGED <<markerStack, silenced, err, report>> /\ ~err')]_vars

\* the name of a Function that returns an error has been read as a String
\* token while silencing was active, and the run goes on
SilencedFailNotCalled ==
    /\ silenced # 0
    /\ token = Token("String", "fail")
    /\ ~err
    /\ last.fn = ""

\* the step reads the close parenthesis of the scope silence was met in
ClosesSilencedScope == token'.type = "CloseParen" /\ Len(markerStack) = silenced

\* C15: silencing is entered by an unquoted silence inside a scope, at the
\* depth of that scope; while active it is at most the current depth, it is
\* kept by every token (parentheses of inner scopes and further silence
\* keywords included) except the close parenthesis of its own scope, which
\* clears it; while not active a Function name is dispatched and any other
\* text is pushed
SilenceLastsForItsScope ==
    [][/\ silenced # 0
          => /\ silenced <= Len(markerStack)
             /\ ClosesSilencedScope => silenced' = 0
             /\ ~ClosesSilencedScope => silenced' = silenced
       /\ silenced = 0
          => /\ (token' = Token("String", "silence") /\ markerStack # << >>)
                  => (silenced' = Len(markerStack) /\ ~err')
             /\ token' # Token("String", "silence") => silenced' = 0
             /\ (token'.type = "String" /\ token'.text \in FunctionNames)
                  => last'.fn = token'.text
             /\ \/ token'.type = "QuotedString"
                \/ token'.type = "String" /\ token'.text \notin FunctionNames \cup {"silence"}
                => operandStack' = Append(operandStack, Str(token'.text))]_vars

\* a scope inside the silenced scope has been closed and silencing is still
\* active
SilencedAfterInnerClose ==
    /\ token.type = "CloseParen"
    /\ ~err
    /\ silenced # 0
    /\ Len(markerStack) = silenced

\* C16: an unquoted silence read while silencing is off and no scope is
\* open ends the run with the error of silence outside parentheses and
\* leaves silencing off and the stacks as they were; no step follows an
\* error
SilenceOutsideScopeFails ==
    [][/\ ~err
       /\ (silenced = 0 /\ markerStack = << >> /\ token' = Token("String", "silence"))
          => /\ err'
             /\ report' = SilenceOutsideParentheses
             /\ silenced' = 0
             /\ UNCHANGED <<Context, operandStack, markerStack>>]_vars

\* silence has been read outside parentheses, with operands on the stack
SilenceReadOutsideScope ==
    /\ token = Token("String", "silence")
    /\ report = SilenceOutsideParentheses
    /\ markerStack = << >>
    /\ operandStack # << >>

\* where the view of a Function called now starts: the top marker, or the
\* bottom of the stack when no scope is open
Floor == IF markerStack = << >> THEN 0 ELSE markerStack[Len(markerStack)]

\* the texts of the view of a Function called now
View == TextsOf(SubSeq(operandStack, Floor + 1, Len(operandStack)))

\* the markers are in order and none is above the top of the operand stack
MarkersWithinStack ==
    /\ \A k \in 1..Len(markerStack) : markerStack[k] <= Len(operandStack)
    /\ \A k \in 1..Len(markerStack) - 1 : markerStack[k] <= markerStack[k + 1]

\* C17: a called Function is given the operand stack from the top marker
\* on (from the bottom when no scope is open): GetValues returns exactly
\* these values, Pop returns the topmost of them and at most all of them
\* however large its count, and whatever the Function pops and pushes the
\* values below the marker stay as they were
FunctionSeesItsScopeOnly ==
    [][last'.fn \in FunctionNames
          => /\ MarkersWithinStack /\ MarkersWithinStack'
             /\ Len(operandStack') >= Floor
             /\ SubSeq(operandStack', 1, Floor) = SubSeq(operandStack, 1, Floor)
             /\ \A i \in 1..Len(last'.args) :
                   last'.args[i] \in {View[j] : j \in 1..Len(View)} \cup {PushedText}
             /\ last'.fn = "popall"
                  => (last'.args = View \o View /\ Len(operandStack') = Floor)
             /\ last'.fn = "test"
                  => /\ Len(View) >= 2 => last'.args = SubSeq(View, Len(View) - 1, Len(View))
                     /\ Len(View) < 2 => (last'.args = View /\ Len(operandStack') = Floor)
             /\ last'.fn \in {"greedy", "popfail"}
                  => Len(operandStack') = Floor
             /\ last'.fn = "greedy" => last'.args = View \o <<PushedText>>]_vars

\* a Function that pops more than its view holds has been called inside a
\* scope, above values of the enclosing scope, and has got the values of
\* its view
GreedyCalledInsideScope ==
    /\ last.fn = "greedy"
    /\ last.ok
    /\ markerStack # << >>
    /\ Floor > 0
    /\ Len(operandStack) = Floor
    /\ Len(last.args) >= 2

\* C18: an open parenthesis records the length of the operand stack on top
\* of the marker stack; a close parenthesis with no marker fails as
\* unmatched; otherwise it pops the top marker and fails exactly when the
\* operand stack is not as long as the marker says; no step changes a marker
\* below the top, so after a close parenthesis that succeeds the operand
\* stack is as long as it was at the matching open parenthesis
CloseParenRestoresLength ==
    [][/\ \A k \in 1..Len(markerStack) :
             k <= Len(markerStack') => markerStack'[k] = markerStack[k]
       /\ token'.type = "OpenParen"
          => (markerStack' = Append(markerStack, Len(operandStack))
              /\ operandStack' = operandStack)
       /\ token'.type # "OpenParen" => Len(markerStack') <= Len(markerStack)
       /\ token'.type = "CloseParen"
          => /\ operandStack' = operandStack
             /\ markerStack = << >>
                  => (err' /\ report' = UnmatchedCloseParen /\ markerStack' = << >>)
             /\ markerStack # << >>
                  => /\ markerStack' = SubSeq(markerStack, 1, Len(markerStack) - 1)
                     /\ err' <=> Len(operandStack) # markerStack[Len(markerStack)]
                     /\ err' => report' = UnconsumedOperands
                     /\ ~err' => Len(operandStack') = markerStack[Len(markerStack)]]_vars

\* an inner scope has been closed without error above operands of the
\* enclosing scope
InnerScopeClosedAboveOperands ==
    /\ token.type = "CloseParen"
    /\ ~err
    /\ markerStack # << >>
    /\ Len(operandStack) > markerStack[Len(markerStack)]

\* the step reads the end of the input: the token loop has completed
\* without error and Finish is run
EndsInput == token' = Token("Error", "EOF")

\* C19: when the token loop has completed without error, the run succeeds
\* exactly when the operand stack is empty, the marker stack is empty and
\* silencing is not active; otherwise it ends with an error although no
\* token raised one; the check changes neither stack
FinishAcceptsExactlyCleanEnd ==
    [][EndsInput
          => /\ ~err
             /\ ~err' <=> (operandStack = << >> /\ markerStack = << >> /\ silenced = 0)
             /\ ~err' <=> report' = NoError
             /\ last'.ok <=> ~err'
             /\ UNCHANGED <<Context, operandStack, markerStack, silenced>>]_vars

\* the input has ended with operands left on the stack and no scope open,
\* and the run is rejected
EndedWithOperandsLeft ==
    /\ token = Token("Error", "EOF")
    /\ err
    /\ operandStack # << >>
    /\ markerStack = << >>
    /\ silenced = 0
    /\ report = UnconsumedTokens

\* C20 as claimed, for the third condition: a run that ends while
\* silencing is active, with no operand left, is reported as silenced at
\* the end of the input
FinishReportsSilencing ==
    [][(EndsInput /\ operandStack = << >> /\ silenced # 0)
          => report' = SilencedAtEOF]_vars

\* C20: Finish reports the operand stack when it is not empty, else the
\* marker stack when it is not empty; silencing is active only inside an
\* open scope, so a run that ends silenced is reported for its operands or
\* its unclosed parentheses and the report of silencing is never given
FinishReportsStackThenScopes ==
    [][EndsInput
          => /\ silenced # 0 => markerStack # << >>
             /\ operandStack # << >> => report' = UnconsumedTokens
             /\ (operandStack = << >> /\ markerStack # << >>)
                  => report' = UnclosedParentheses
             /\ report' # SilencedAtEOF]_vars

\* the input has ended inside a silenced scope with the operand stack
\* empty, and the unclosed parentheses are what is reported
EndedSilenced ==
    /\ token = Token("Error", "EOF")
    /\ silenced # 0
    /\ operandStack = << >>
    /\ report = UnclosedParentheses

----------------------------------------------------------------------------
(* Errors of a run over the Lexer *)

\* C21: once the token loop has met an error (an error of the Lexer, a syntax
\* error of the Parser, a failing Function), no further pass is made: no
\* rune is read, no token handled, no Function called, nothing pushed; the
\* pass that meets the error pushes nothing either.
ErrorAbortsRun ==
    [][/\ ~err
       /\ err' => /\ operandStack' = operandStack
                  /\ report' # NoError
                  /\ Context' = Context]_vars

\* a Function has failed with operands on the stack and input left to read
FailedBeforeEndOfInput ==
    /\ err
    /\ report = FunctionError
    /\ operandStack # << >>
    /\ ~read.eof

\* the errors Parser.Finish returns
FinishErrors == {UnconsumedTokens, UnclosedParentheses, SilencedAtEOF}

FunctionErrorOnItsLine ==
    err /\ report = FunctionError => reportLine = read.start

----------------------------------------------------------------------------
(* Quoted strings *)

\* C24: when the Parser is not silenced, a QuotedString token is pushed as a
\* text operand whatever its content, the name of a registered Function or
\* the word silence included: no Function is called, silencing does not
\* begin and no error is met; a String token of the same content calls the
\* Function, and the String token silence begins silencing or fails.
QuotedStringIsPushed ==
    [][/\ (token'.type = "QuotedString" /\ ~IsSilenced(silenced)) =>
            /\ operandStack' = Append(operandStack, Str(token'.text))
            /\ last'.fn = ""
            /\ silenced' = silenced
            /\ markerStack' = markerStack
            /\ ~err'
            /\ Context' = Context
       /\ (token'.type = "String" /\ ~IsSilenced(silenced) /\ token'.text \in FunctionNames) =>
            /\ last'.fn = token'.text
            /\ last'.ok = ~Functions[token'.text].fails
       /\ (token'.type = "String" /\ ~IsSilenced(silenced) /\ token'.text = "silence") =>
            /\ operandStack' = operandStack
            /\ IF markerStack = << >> THEN err' ELSE silenced' = Len(markerStack)]_vars

\* the quoted word silence and the quoted name of a failing Function lie on
\* the stack of a run that goes on
QuotedKeywordsPushed ==
    /\ ~err
    /\ ~IsSilenced(silenced)
    /\ Len(operandStack) >= 2
    /\ operandStack[Len(operandStack) - 1] = Str("silence")
    /\ operandStack[Len(operandStack)] = Str("fail")
    /\ token = Token("QuotedString", "fail")

----------------------------------------------------------------------------
(* open *)

\* the name is of a category: it starts with the name of a category and a
\* colon, or it is Equity
OfCategory(an) ==
    \/ \E prefix \in {"Assets:", "Liabilities:", "Income:", "Expenses:", "Equity:"},
          rest \in NameRests : an = prefix \o rest
    \/ an = "Equity"

\* C25: open called with a name and a list of commodities succeeds exactly
\* when the name is of a category, no account of that name is open at the
\* clock, and every commodity of the list exists.  After a success, the first
\* opening or a reopening, the name maps to an account created at the clock,
\* not closed, with the commodities of the list, the empty default lot alone,
\* no tags and no notes; after a failure the accounts are as before.
OpenSucceedsExactlyWhen ==
    [][last'.fn = "open" =>
         LET an == last'.args[1]
             cnames == {last'.args[i] : i \in 2..Len(last'.args)}
         IN  /\ last'.ok <=>
                  /\ OfCategory(an)
                  /\ ~(an \in DOMAIN Accounts /\ ~IsClosed(heap[Accounts[an]], Date))
                  /\ cnames \subseteq DOMAIN Commodities
             /\ last'.ok =>
                  /\ DOMAIN Accounts' = DOMAIN Accounts \cup {an}
                  /\ \A other \in DOMAIN Accounts \ {an} :
                        heap'[Accounts'[other]] = heap[Accounts[other]]
                  /\ LET acct == heap'[Accounts'[an]]
                     IN  /\ acct.Name = an
                         /\ acct.CreationDate = Date
                         /\ acct.ClosingDate = ZeroDate
                         /\ acct.Commodities = cnames
                         /\ DOMAIN acct.Lots = {""}
                         /\ acct.Lots[""] = << >>
                         /\ acct.Tags = {}
                         /\ acct.Notes = << >>
             /\ ~last'.ok =>
                  /\ DOMAIN Accounts' = DOMAIN Accounts
                  /\ \A other \in DOMAIN Accounts :
                        heap'[Accounts'[other]] = heap[Accounts[other]]
             /\ Date' = Date
             /\ Commodities' = Commodities]_vars

\* Assets:A, closed earlier, has been reopened with commodities beside the
\* account Equity
ReopenedWithCommodities ==
    /\ last.fn = "open"
    /\ last.ok
    /\ last.args = <<"Assets:A", "USD", "JPY">>
    /\ "Equity" \in DOMAIN Accounts
    /\ Len(heap) > 2
    /\ heap[Accounts["Assets:A"]].Commodities = {"USD", "JPY"}
    /\ Date # ZeroDate

----------------------------------------------------------------------------
(* comment *)

\* the view comment is called on: the operands above the top marker, the
\* texts of the statement included
CommentView(texts) ==
    LET stack == operandStack \o Strs(texts) IN SubSeq(stack, Floor + 1, Len(stack))

\* C26 (as stated): comment succeeds exactly when its view holds one operand
\* and that operand is a text; it fails on a view of no operand, of more than
\* one operand, or with a top operand that is no text.
CommentTakesOneOperand ==
    [][last'.fn = "comment" =>
         LET view == CommentView(last'.args)
         IN  last'.ok <=> (Len(view) = 1 /\ IsString(view[1]))]_vars

\* C26 (amended): comment succeeds exactly when its view holds at least one
\* operand and the top operand is a text; it pops that operand alone, leaves
\* the operands below on the stack and changes nothing else.  It fails on a
\* view of no operand and on a top operand that is no text.
CommentPopsTheTopText ==
    [][last'.fn = "comment" =>
         LET view == CommentView(last'.args)
             stack == operandStack \o Strs(last'.args)
         IN  /\ last'.ok <=> (Len(view) >= 1 /\ IsString(view[Len(view)]))
             /\ last'.ok => operandStack' = SubSeq(stack, 1, Len(stack) - 1)
             /\ Context' = Context
             /\ markerStack' = markerStack]_vars

\* comment has succeeded on a view of a Transfer and a text, outside any
\* scope, and the Transfer is left
CommentedAboveTransfer ==
    /\ last.fn = "comment"
    /\ last.ok
    /\ markerStack = << >>
    /\ operandStack # << >>
    /\ IsTransfer(operandStack[Len(operandStack)])

----------------------------------------------------------------------------
(* The Lexer *)

\* the rune read by a step stands in an unquoted string, unescaped
InUnquotedString(l) == l.isInString /\ ~l.isInQuotedString /\ ~l.isEscaping

\* C27: a parenthesis read in an unquoted string ends the string: the pass
\* returns the String token of the runes gathered and keeps the parenthesis
\* pending; the next pass returns that parenthesis and reads no rune; a pass
\* that returns a pending parenthesis leaves none pending, and the two
\* parentheses are never pending together.
ParenEndsString ==
    [][/\ (read'.rune \in {OpenRune, CloseRune} /\ InUnquotedString(lexer)) =>
            /\ token' = Token("String", BuilderString(lexer.token))
            /\ lexer'.openParenSet = (read'.rune = OpenRune)
            /\ lexer'.closeParenSet = (read'.rune = CloseRune)
            /\ lexer'.token = << >>
            /\ ~lexer'.isInString
       /\ HasPendingParen(lexer) =>
            /\ read'.rune = ""
            /\ read'.newlines = read.newlines
            /\ token' = IF lexer.openParenSet THEN Token("OpenParen", OpenRune)
                        ELSE Token("CloseParen", CloseRune)
            /\ ~HasPendingParen(lexer')
            /\ lexer'.token = lexer.token
       /\ ~HasPendingParen(lexer) => read'.rune # ""
       /\ ~(lexer'.openParenSet /\ lexer'.closeParenSet)]_vars

\* the closing parenthesis that ended a string on the second line has been
\* returned without a rune being read
PendingCloseParenReturned ==
    /\ token = Token("CloseParen", CloseRune)
    /\ read.rune = ""
    /\ ~HasPendingParen(lexer)
    /\ LineNumber(lexer) > 1

EndOfStream == Token("Error", EOF)

\* C28: at the end of the input the Lexer returns the error of an unfinished
\* quoted string if a quoted string is open; otherwise the error of an
\* unfinished escape if the last rune was a backslash that began an escape;
\* otherwise the String token of the unquoted string under way, and the end
\* of the stream on the call after it; otherwise the end of the stream.
\* After the end of the stream every call returns the end of the stream.
FinalTokenByState ==
    [][/\ lexer'.isEscaping => (read'.rune = Backslash \/ (read'.rune = EOF /\ lexer.isEscaping))
       /\ read'.rune = EOF =>
            /\ lexer.isInQuotedString => token' = Token("Error", inStringAtEofError)
            /\ (~lexer.isInQuotedString /\ lexer.isEscaping) =>
                   token' = Token("Error", escapingAtEofError)
            /\ (~lexer.isEscaping /\ InUnquotedString(lexer)) =>
                   /\ token' = Token("String", BuilderString(lexer.token))
                   /\ ~lexer'.isInString
            /\ (~lexer.isEscaping /\ ~lexer.isInString) => token' = EndOfStream
       /\ (read.eof /\ token.type = "String") => token' = EndOfStream
       /\ token = EndOfStream => token' = EndOfStream
       /\ read.eof => read'.rune = EOF]_vars

\* the input has ended in an unquoted string: its String token has been
\* returned, and the end of the stream on the call after it
EndOfStreamAfterFinalString ==
    /\ token = EndOfStream
    /\ read.eof
    /\ lexer.token # << >>

\* the input unq1"q 1"unq2"q 2""q 3" of TestGetNextToken_QuotesTerminateStrings
QuotesInput ==
    <<"u", "n", "q", "1", Quote, "q", " ", "1", Quote, "u", "n", "q", "2", Quote,
      "q", " ", "2", Quote, Quote, "q", " ", "3", Quote>>

\* C29: a quote read in an unquoted string ends the string, whose String
\* token is returned, and opens a quoted string; the quote that closes a
\* quoted string returns its QuotedString token, empty or not; the string
\* gathered after a quote starts afresh, so that texts that touch are tokens
\* of their own, in the order of the input.  The input unq1"q 1"unq2"q 2""q 3"
\* gives String, QuotedString, String, QuotedString, QuotedString.
QuotesSeparateStrings ==
    [][/\ (read'.rune = Quote /\ InUnquotedString(lexer)) =>
            /\ token' = Token("String", BuilderString(lexer.token))
            /\ lexer'.isInString /\ lexer'.isInQuotedString
            /\ lexer'.token = << >>
       /\ (read'.rune = Quote /\ lexer.isInQuotedString /\ ~lexer.isEscaping) =>
            /\ token' = Token("QuotedString", BuilderString(lexer.token))
            /\ ~lexer'.isInString /\ ~lexer'.isInQuotedString
            /\ lexer'.token = << >>
       /\ (read'.rune = Quote /\ ~lexer.isInString /\ ~lexer.isEscaping) =>
            /\ token'.type = "none"
            /\ lexer'.isInString /\ lexer'.isInQuotedString
            /\ lexer'.token = lexer.token
       /\ Lex(NewLexer, QuotesInput) =
            <<Token("String", "unq1"), Token("QuotedString", "q 1"), Token("String", "unq2"),
              Token("QuotedString", "q 2"), Token("QuotedString", "q 3"), EndOfStream>>]_vars

\* a quote read in an unquoted string has returned the String token and
\* opened a quoted string
QuoteEndedUnquotedString ==
    /\ read.rune = Quote
    /\ token = Token("String", "a")
    /\ lexer.isInQuotedString
    /\ lexer.token = << >>

\* C30: the line number of the Lexer is 1 at the start and, in every state,
\* 1 more than the count of the newlines read: outside strings, in unquoted
\* and quoted strings, and after a backslash.
LineNumberCountsNewlines ==
    /\ LineNumber(lexer) = 1 + read.newlines
    /\ LineNumber(lexer) >= 1

\* an escaped newline has been read into an unquoted string and counted
EscapedNewlineCounted ==
    /\ read.rune = Newline
    /\ lexer.isInString
    /\ ~lexer.isInQuotedString
    /\ lexer.token # << >>
    /\ lexer.token[Len(lexer.token)] = Newline
    /\ LineNumber(lexer) = 2

----------------------------------------------------------------------------
(* The -d flag *)

\* C31: in a run with a cut-off date, every step is taken before the run has
\* stopped; a date call stops the run exactly when it succeeds and leaves
\* the clock after the cut-off date, and the stop is no error; a date call
\* that sets the clock to the cut-off date does not stop the run; every
\* other statement acts on the Context as it does without the flag, and
\* until the stop the clock has not passed the cut-off date.
CutOffStopsAfterTheDay ==
    [][/\ ~Stopped
       /\ ~After(Date, CutOffDate)
       /\ last'.fn = "date" =>
            /\ last'.ok <=> ~After(Date, DateOf(last'.args))
            /\ Stopped' <=> (last'.ok /\ After(DateOf(last'.args), CutOffDate))
            /\ last'.ok => Date' = DateOf(last'.args)
            /\ Stopped' => ~err'
            /\ <<Accounts, Commodities, Tags, heap>>' = <<Accounts, Commodities, Tags, heap>>
       /\ last'.fn # "date" => ~Stopped']_vars

\* the run has stopped on the first date after the cut-off date, with the
\* account opened on the cut-off date in the Context and an operand left
StoppedAfterTheDay ==
    /\ Stopped
    /\ ~err
    /\ "Assets:A" \in DOMAIN Accounts
    /\ Equal(heap[Accounts["Assets:A"]].CreationDate, CutOffDate)
    /\ operandStack # << >>

----------------------------------------------------------------------------
(* Termination *)

\* Parser.Parse has returned
Returns == err \/ token.type = "Error"

\* what is left to do before the end of the input is reported: the runes to
\* read, a pending parenthesis to return, a final string to return
LeftToDo(l, runes) ==
    3 * Len(runes) + (IF HasPendingParen(l) THEN 1 ELSE 0) + (IF l.isInString THEN 1 ELSE 0)

\* C32: over a finite stream the run terminates: every pass of the token
\* loop returns a pending parenthesis, or takes a rune from the reader, or
\* returns the final string at the end of the input, or ends the loop; the
\* loop ends at the end of the input or with its first error, and it ends.
RunTerminates ==
    /\ [][/\ ~Returns
          /\ \/ HasPendingParen(lexer) /\ ~HasPendingParen(lexer') /\ input' = input
             \/ ~HasPendingParen(lexer) /\ input # << >> /\ input' = Tail(input)
             \/ /\ ~HasPendingParen(lexer)
                /\ input = << >>
                /\ input' = input
                /\ Returns' \/ (lexer.isInString /\ ~lexer'.isInString)
          /\ Returns' \/ LeftToDo(lexer', input') < LeftToDo(lexer, input)
          /\ token'.type = "Error" /\ token'.text = EOF =>
                /\ input = << >>
                /\ report' = Finish(operandStack, markerStack, silenced)]_vars
    /\ <>Returns

\* the loop has returned nil at the end of a stream of two lines whose last
\* string is ended by the end of the input
ReturnedAtEndOfInput ==
    /\ token = EndOfStream
    /\ ~err
    /\ input = << >>
    /\ read.newlines = 1
    /\ ~lexer.isInString
    /\ lexer.token # << >>

----------------------------------------------------------------------------
(* Transfers and the lots of accounts *)

\* the lots of the account registered as an, with their entries
LotsOf(h, accounts, an) == h[accounts[an]].Lots

\* C33: an xact leaves alone the lots of every registered account that is
\* closed at the current date.
NoTransferIntoClosedAccount ==
    [][last'.fn = "xact" =>
          \A an \in DOMAIN Accounts :
              IsClosed(heap[Accounts[an]], Date) =>
                  /\ an \in DOMAIN Accounts'
                  /\ LotsOf(heap', Accounts', an) = LotsOf(heap, Accounts, an)]_vars

\* C34: an xact that fails leaves every lot of every registered account as it
\* was: no balance changed, no entry created.
FailedXactChangesNothing ==
    [][last'.fn = "xact" /\ ~last'.ok => LotsUnchanged]_vars

\* the lots of the registered accounts, as pairs of account name and lot name
RegisteredLots(h, accounts) ==
    UNION {{<<an, ln>> : ln \in DOMAIN h[accounts[an]].Lots} : an \in DOMAIN accounts}

RECURSIVE SumOfBalances(_, _, _, _)
SumOfBalances(h, accounts, todo, cn) ==
    IF todo = {} THEN 0
    ELSE LET lot == CHOOSE l \in todo : TRUE
         IN  BalanceOf(h, accounts[lot[1]], lot[2], cn) +
             SumOfBalances(h, accounts, todo \ {lot}, cn)

\* for every commodity the balances of all lots of all registered accounts
\* sum to zero
Conserved(h, accounts) ==
    \A cn \in CommodityNames :
        SumOfBalances(h, accounts, RegisteredLots(h, accounts), cn) = 0

NoExchangePending == \A i \in 1..Len(operandStack) :
    IsTransfer(operandStack[i]) => operandStack[i].ExchangeRate = NoExchangeRate

\* C35: a function that succeeds, called with no Transfer of xfer-exch on the
\* stack and with the balances of every commodity summing to zero over the
\* lots of the registered accounts, leaves them summing to zero.
BalancesConserved ==
    [][Conserved(heap, Accounts) /\ NoExchangePending /\ last'.ok
          => Conserved(heap', Accounts')]_vars

\* Account object i of h has an entry for commodity cn in lot ln
HasEntry(h, i, ln, cn) == ln \in DOMAIN h[i].Lots /\ cn \in DOMAIN h[i].Lots[ln]

\* C37: when an xact succeeds, every one of its Transfers bound by create-lot
\* has made an entry that was not there, with the Transfer's quantity as its
\* balance and the clock as its creation date.
CreateLotMakesNewEntry ==
    [][last'.fn = "xact" /\ last'.ok =>
          \A k \in 1..Len(operandStack) :
              IsTransfer(operandStack[k]) /\ operandStack[k].CreateLot =>
                  LET t == operandStack[k]
                      cn == t.Quantity.Commodity
                  IN  /\ ~HasEntry(heap, t.Account, t.LotName, cn)
                      /\ HasEntry(heap', t.Account, t.LotName, cn)
                      /\ heap'[t.Account].Lots[t.LotName][cn].Balance = t.Quantity
                      /\ heap'[t.Account].Lots[t.LotName][cn].CreationDate = Date]_vars

\* the commodity a call of xfer or xfer-exch names is one its account does
\* not take
OutsideAllowList(args) ==
    /\ args[1] \in DOMAIN Accounts
    /\ heap[Accounts[args[1]]].Commodities # {}
    /\ args[3] \notin heap[Accounts[args[1]]].Commodities

\* C38: every commodity with an entry in a lot of a registered account that
\* was opened with commodities is one of them, and xfer and xfer-exch fail
\* when they name another commodity for such an account.
AllowListKept ==
    /\ [](\A an \in DOMAIN Accounts :
              heap[Accounts[an]].Commodities # {} =>
                  \A ln \in DOMAIN heap[Accounts[an]].Lots :
                      DOMAIN heap[Accounts[an]].Lots[ln] \subseteq
                          heap[Accounts[an]].Commodities)
    /\ [][last'.fn \in {"xfer", "xfer-exch"} /\ OutsideAllowList(last'.args)
             => ~last'.ok /\ heap' = heap]_vars

\* xfer-exch has failed for JPY on Assets:A, which takes USD only and holds
\* USD in its lot foo
RefusedOutsideAllowList ==
    /\ err
    /\ last.fn = "xfer-exch"
    /\ last.args[3] = "JPY"
    /\ heap[Accounts["Assets:A"]].Commodities = {"USD"}
    /\ HasEntry(heap, Accounts["Assets:A"], "foo", "USD")

\* the pending Transfers into commodity cn of lot ln of Account object i
TransfersInto(i, ln, cn) ==
    SelectSeq(PendingTransfers,
              LAMBDA t : t.Account = i /\ t.LotName = ln /\ t.Quantity.Commodity = cn)

\* C40: an entry that a step leaves in its lot keeps its exchange rate and
\* its creation date; an entry made by an xact has the exchange rate of the
\* first of the xact's Transfers into it, none when that Transfer is of
\* xfer, and the clock as its creation date; and only an xact makes entries.
ExchangeRateFixedAtCreation ==
    [][\A i \in 1..Len(heap) : \A ln \in LotNames : \A cn \in CommodityNames :
          HasEntry(heap', i, ln, cn) =>
              IF HasEntry(heap, i, ln, cn)
              THEN /\ heap'[i].Lots[ln][cn].ExchangeRate = heap[i].Lots[ln][cn].ExchangeRate
                   /\ heap'[i].Lots[ln][cn].CreationDate = heap[i].Lots[ln][cn].CreationDate
              ELSE /\ last'.fn = "xact"
                   /\ TransfersInto(i, ln, cn) # << >>
                   /\ heap'[i].Lots[ln][cn].ExchangeRate =
                          Head(TransfersInto(i, ln, cn)).ExchangeRate
                   /\ heap'[i].Lots[ln][cn].CreationDate = Date]_vars

\* an xact has taken 1 USD from the entry that xfer-exch made the day before:
\* the entry has its exchange rate and its creation date
AddedToExchangeEntry ==
    /\ last.fn = "xact"
    /\ last.ok
    /\ Date = [Year |-> 2000, Month |-> 1, Day |-> 2]
    /\ HasEntry(heap, Accounts["Assets:A"], "", "USD")
    /\ heap[Accounts["Assets:A"]].Lots[""]["USD"].ExchangeRate # NoExchangeRate
    /\ heap[Accounts["Assets:A"]].Lots[""]["USD"].CreationDate = [Year |-> 2000, Month |-> 1, Day |-> 1]
    /\ heap[Accounts["Assets:A"]].Lots[""]["USD"].Balance.Amount = 0

----------------------------------------------------------------------------
(* The tag index *)

\* the object is registered in the Context and carries the tag
CarriesTag(target, t) ==
    IF target.Account # 0
    THEN /\ \E an \in DOMAIN Accounts : Accounts[an] = target.Account
         /\ HasTag(heap[target.Account], t)
    ELSE /\ target.Commodity \in DOMAIN Commodities
         /\ t \in Commodities[target.Commodity].Tags

\* C36: every entry of the tag index is a slice that is not empty and holds
\* no object twice, every object in it is registered in the Context (an
\* account under its name) and carries the tag, and every registered account
\* or commodity that carries a tag is in the entry of that tag.
TagIndexAgrees ==
    /\ \A t \in DOMAIN Tags :
          /\ Tags[t] # << >>
          /\ \A target \in TargetsOf(Tags, t) :
                Occurrences(Tags[t], target) = 1 /\ CarriesTag(target, t)
    /\ \A an \in DOMAIN Accounts : \A t \in TagNames :
          HasTag(heap[Accounts[an]], t) =>
              AccountTarget(Accounts[an]) \in TargetsOf(Tags, t)
    /\ \A cn \in DOMAIN Commodities : \A t \in Commodities[cn].Tags :
          CommodityTarget(cn) \in TargetsOf(Tags, t)

----------------------------------------------------------------------------
(* The marker stack *)

\* C39: in every state the markers are in order from the bottom to the top
\* of the marker stack and the top marker, where getOperands starts the view
\* of a Function, is not above the top of the operand stack: the panic of
\* getOperands is not reached.
GetOperandsNeverPanics ==
    /\ MarkersWithinStack
    /\ Floor <= Len(operandStack)
    /\ \A k \in 1..Len(markerStack) : markerStack[k] >= 0

\* a Function that pops more than its view holds has been called in an inner
\* scope above values of the outer one, and has emptied its view only
PoppedDownToTheMarker ==
    /\ last.fn = "greedy"
    /\ Len(markerStack) = 2
    /\ Floor > 0
    /\ Len(operandStack) = Floor

====
